---- MODULE Spec2Model ----
(***************************************************************************)
(* State-machine model of the FatELF glue tool (fatelf/utils/fatelf-glue.c *)
(* and fatelf/utils/fatelf-haiku.c).                                       *)
(*                                                                         *)
(* Files are sequences of bytes.  A byte is a record [k, f, p]: a zero     *)
(* byte, byte p of the serialized FatELF header, or byte p of the input    *)
(* file named f, so that "the output holds bytes [a, b) of input f" is a   *)
(* statement about the content of the output.                              *)
(***************************************************************************)
EXTENDS Integers, Sequences, FiniteSets, TLC

VARIABLES
    g,      \* a call of fatelf_glue
    m,      \* a call of fatelf_merge_files on regular non-ELF inputs
    r,      \* invocations of the tool with -r (fatelf_recursive_glue)
    h,      \* a call of haiku_find_rsrc on a file
    ar,     \* a call of ar_dostuff on an archive
    gcc,    \* a run of the fatelf-gcc driver
    args    \* the parsing of the arguments of fatelf-gcc or fatelf-as

vars == <<g, m, r, h, ar, gcc, args>>

(***************************************************************************)
(* Bounds of the model.                                                    *)
(***************************************************************************)
\* largest number of inputs handed to fatelf_glue
MaxBins == 3
\* container page size used by align_to_page, scaled down from 4096
PageSize == 16
\* largest number of peers handed to the byte-equality merge
MaxFiles == 3
\* largest length of a file of the byte-equality merge
MaxLen == 2
\* read buffer of the byte-equality merge (bufsize), scaled down from 4096
BufSize == 1
\* largest number of input directories of a recursive merge
MaxRoots == 3
\* largest number of members of an archive
MaxMembers == 3
\* largest number of -arch flags of a run of the compiler driver
MaxArchs == 3
\* largest number of arguments on the command line
MaxArgs == 2

(***************************************************************************)
(* Program constants.                                                      *)
(***************************************************************************)
HAIKU_ELF32_RSRC_ALIGN_MIN == 32
HAIKU_ELF64_RSRC_ALIGN == 8
HAIKU_FAT_RSRC_ALIGN == 8
FATELF_32BITS == 1
FATELF_64BITS == 2
\* sizeof(struct Elf32_Ehdr), sizeof(struct Elf64_Ehdr)
Elf32EhdrSize == 52
Elf64EhdrSize == 64
\* bytes of the resource magic word
RsrcMagicSize == 4
\* fatelf_glue refuses more than 0xFF binaries
MaxRecords == 255

Max(a, b) == IF a > b THEN a ELSE b

\* #define ALIGN(v, a) (((v + a - 1) / a) * a)
ALIGN(v, a) == ((v + a - 1) \div a) * a

\* align_to_page: round up to the next multiple of the page size
align_to_page(x) ==
    LET overflow == x % PageSize
    IN  IF overflow # 0 THEN x + (PageSize - overflow) ELSE x

\* FATELF_DISK_FORMAT_SIZE(n): 8 bytes of prefix and 24 bytes per record
FATELF_DISK_FORMAT_SIZE(n) == 8 + 24 * n

(***************************************************************************)
(* Bytes and files.                                                        *)
(***************************************************************************)
ZeroByte == [k |-> "zero", f |-> "", p |-> 0]
OldByte == [k |-> "old", f |-> "", p |-> 0]
HdrByte(p) == [k |-> "hdr", f |-> "", p |-> p]
InByte(f, p) == [k |-> "in", f |-> f, p |-> p]

\* bytes [off, off + len) of the input file f
FileBytes(f, off, len) == [x \in 1..len |-> InByte(f.id, off + x - 1)]

Zeros(len) == [x \in 1..len |-> ZeroByte]

HeaderBytes(n) == [x \in 1..FATELF_DISK_FORMAT_SIZE(n) |-> HdrByte(x - 1)]

\* write(2) of bytes at position pos: overwrites, extends, zero-fills a hole
WriteAt(data, pos, bytes) ==
    LET newlen == Max(Len(data), pos + Len(bytes))
    IN  [x \in 1..newlen |->
            IF x - 1 >= pos /\ x - 1 < pos + Len(bytes) THEN bytes[x - pos]
            ELSE IF x <= Len(data) THEN data[x]
            ELSE ZeroByte]

(***************************************************************************)
(* Input files of fatelf_glue.  An ELF input is described by what the code *)
(* reads from it: the identification bytes that xread_elf_header copies    *)
(* into the record, the end of the ELF data and the largest p_align that   *)
(* the table scan of haiku_elf_rsrc_offset arrives at, the file size, and  *)
(* the position of a Haiku resource magic word (-1: none).                 *)
(***************************************************************************)
Elf(id, machine, osabi, word_size, end, align, fsize, magicAt) ==
    [id |-> id, kind |-> "elf", machine |-> machine, osabi |-> osabi,
     osabi_version |-> 0, word_size |-> word_size, byte_order |-> 1,
     end |-> end, align |-> align, fsize |-> fsize, magicAt |-> magicAt]

NotElf(id, kind, fsize) ==
    [id |-> id, kind |-> kind, machine |-> 0, osabi |-> 0,
     osabi_version |-> 0, word_size |-> 0, byte_order |-> 0,
     end |-> 0, align |-> 0, fsize |-> fsize, magicAt |-> -1]

InputFiles ==
    { Elf("a32", 3, 0, FATELF_32BITS, 52, 4, 64, -1),
      Elf("b32", 3, 0, FATELF_32BITS, 52, 4, 80, 64),
      Elf("c32", 3, 9, FATELF_32BITS, 60, 64, 72, 64),
      Elf("a64", 62, 0, FATELF_64BITS, 64, 4096, 70, -1),
      Elf("b64", 62, 0, FATELF_64BITS, 66, 8, 88, 72),
      Elf("c64", 62, 9, FATELF_64BITS, 64, 8, 72, -1),
      Elf("d64", 183, 0, FATELF_64BITS, 64, 8, 66, -1),
      NotElf("txt", "other", 30),
      NotElf("gone", "missing", 0) }

RECURSIVE SeqsUpTo(_, _)
SeqsUpTo(S, n) ==
    IF n = 0 THEN { <<>> }
    ELSE LET shorter == SeqsUpTo(S, n - 1)
         IN  shorter \cup { Append(s, x) : s \in { t \in shorter : Len(t) = n - 1 }, x \in S }

(***************************************************************************)
(* Haiku resource location (fatelf-haiku.c).  Each operator returns a      *)
(* record: ok (the C return value), fail (an xfail was raised), and the    *)
(* values left in the out-parameters, which the caller's variables keep    *)
(* when the function did not write them.                                   *)
(***************************************************************************)
\* haiku_elf_rsrc_offset: the alignment rule and the final rounding
haiku_elf_rsrc_offset(f) ==
    LET rsrcAlign == IF f.word_size = FATELF_64BITS THEN HAIKU_ELF64_RSRC_ALIGN
                     ELSE IF f.align < HAIKU_ELF32_RSRC_ALIGN_MIN
                          THEN HAIKU_ELF32_RSRC_ALIGN_MIN
                          ELSE f.align
    IN  ALIGN(f.end, rsrcAlign)

\* the class-specific ELF header that haiku_elf_rsrc_offset reads in full
EhdrSize(f) == IF f.word_size = FATELF_32BITS THEN Elf32EhdrSize ELSE Elf64EhdrSize

\* haiku_parse_rsrc_header(fname, fd, offset, &size)
haiku_parse_rsrc_header(f, offset, size) ==
    IF f.fsize <= offset
    THEN [ok |-> FALSE, fail |-> FALSE, size |-> size]
    ELSE IF f.fsize < offset + RsrcMagicSize
    THEN [ok |-> FALSE, fail |-> TRUE, size |-> f.fsize - offset]
    ELSE [ok |-> f.magicAt = offset, fail |-> FALSE, size |-> f.fsize - offset]

\* haiku_find_rsrc(fname, fd, &offset, &size) on an ELF input
haiku_find_rsrc(f, offset, size) ==
    IF f.fsize < EhdrSize(f)
    THEN [ok |-> FALSE, fail |-> TRUE, offset |-> offset, size |-> size]
    ELSE LET off == haiku_elf_rsrc_offset(f)
             hdr == haiku_parse_rsrc_header(f, off, size)
         IN  [ok |-> hdr.ok, fail |-> hdr.fail, offset |-> off, size |-> hdr.size]

\* find_furthest_record: index of the record with the largest offset + size
RECURSIVE find_furthest_from(_, _, _, _)
find_furthest_from(records, k, furthest, retval) ==
    IF k > Len(records) THEN retval
    ELSE LET edge == records[k].offset + records[k].size
         IN  IF edge > furthest
             THEN find_furthest_from(records, k + 1, edge, k)
             ELSE find_furthest_from(records, k + 1, furthest, retval)

find_furthest_record(records) == find_furthest_from(records, 1, 0, 0)

haiku_fat_rsrc_offset_unaligned(records) ==
    LET furthest == find_furthest_record(records)
    IN  IF furthest = 0 THEN [ok |-> FALSE, offset |-> 0]
        ELSE [ok |-> TRUE,
              offset |-> records[furthest].offset + records[furthest].size]

\* haiku_fat_rsrc_offset: 0 stands for "no record", else the aligned edge
haiku_fat_rsrc_offset(records) ==
    LET furthest == find_furthest_record(records)
    IN  IF furthest = 0 THEN [ok |-> FALSE, offset |-> 0]
        ELSE [ok |-> TRUE,
              offset |-> ALIGN(records[furthest].offset + records[furthest].size,
                               HAIKU_FAT_RSRC_ALIGN)]

\* fatelf_record_matches: the target tuples are equal
fatelf_record_matches(a, b) ==
    /\ a.machine = b.machine
    /\ a.osabi = b.osabi
    /\ a.osabi_version = b.osabi_version
    /\ a.word_size = b.word_size
    /\ a.byte_order = b.byte_order

(***************************************************************************)
(* ELF files byte by byte, as haiku_find_rsrc reads them.  A file is a     *)
(* sequence of bytes (0..255); byte p of the file is data[p + 1].  A value *)
(* in memory is the sequence of its bytes; the host is little-endian.      *)
(***************************************************************************)
\* bytes [pos, pos + len) of a file
Field(data, pos, len) == [x \in 1..len |-> data[pos + x]]

Rev(bytes) == [x \in 1..Len(bytes) |-> bytes[Len(bytes) + 1 - x]]

\* the number a little-endian host sees in the bytes of an integer
RECURSIVE Num(_)
Num(bytes) == IF bytes = <<>> THEN 0 ELSE Head(bytes) + 256 * Num(Tail(bytes))

\* the bytes of the integer v, len bytes wide, on a little-endian host
RECURSIVE Enc(_, _)
Enc(v, len) == IF len = 0 THEN <<>> ELSE <<v % 256>> \o Enc(v \div 256, len - 1)

\* xswap16, xswap32, xswap64 reverse the bytes; nswap16, nswap32, nswap64 do not
xswap(bytes) == Rev(bytes)
nswap(bytes) == bytes

\* get16, get32, get64 as selected by ident[EI_DATA]
get(bytes, swapped) == Num(IF swapped THEN xswap(bytes) ELSE nswap(bytes))

\* #define ELF_MAGIC "\177ELF"
ELF_MAGIC == <<127, 69, 76, 70>>
\* #define HAIKU_RSRC_HEADER_MAGIC 0x444f1000, as a uint32_t in memory
HAIKU_RSRC_HEADER_MAGIC == <<0, 16, 79, 68>>
EI_NIDENT == 16
EI_CLASS == 4
EI_DATA == 5
PT_NULL == 0
SHT_NULL == 0
SHT_PROGBITS == 1
SHT_NOBITS == 8
\* ident[EI_DATA] of the host (FATELF_HOST_ENDIAN) and of the other order
FATELF_LITTLEENDIAN == 1
FATELF_BIGENDIAN == 2

\* sizeof and the offsets of the members the code reads, per class
Elf32PhdrSize == 32
Elf64PhdrSize == 56
Elf32ShdrSize == 40
Elf64ShdrSize == 64

\* struct Elf32_Ehdr / Elf64_Ehdr: offset and width of a member
EhdrMember(cls, name) ==
    IF cls = FATELF_32BITS
    THEN CASE name = "e_phoff" -> [at |-> 28, len |-> 4]
           [] name = "e_shoff" -> [at |-> 32, len |-> 4]
           [] name = "e_phentsize" -> [at |-> 42, len |-> 2]
           [] name = "e_phnum" -> [at |-> 44, len |-> 2]
           [] name = "e_shentsize" -> [at |-> 46, len |-> 2]
           [] name = "e_shnum" -> [at |-> 48, len |-> 2]
    ELSE CASE name = "e_phoff" -> [at |-> 32, len |-> 8]
           [] name = "e_shoff" -> [at |-> 40, len |-> 8]
           [] name = "e_phentsize" -> [at |-> 54, len |-> 2]
           [] name = "e_phnum" -> [at |-> 56, len |-> 2]
           [] name = "e_shentsize" -> [at |-> 58, len |-> 2]
           [] name = "e_shnum" -> [at |-> 60, len |-> 2]

\* struct Elf32_Phdr / Elf64_Phdr
PhdrSize(cls) == IF cls = FATELF_32BITS THEN Elf32PhdrSize ELSE Elf64PhdrSize
PhdrMember(cls, name) ==
    IF cls = FATELF_32BITS
    THEN CASE name = "p_type" -> [at |-> 0, len |-> 4]
           [] name = "p_offset" -> [at |-> 4, len |-> 4]
           [] name = "p_filesz" -> [at |-> 16, len |-> 4]
           [] name = "p_align" -> [at |-> 28, len |-> 4]
    ELSE CASE name = "p_type" -> [at |-> 0, len |-> 4]
           [] name = "p_offset" -> [at |-> 8, len |-> 8]
           [] name = "p_filesz" -> [at |-> 32, len |-> 8]
           [] name = "p_align" -> [at |-> 48, len |-> 8]

\* struct Elf32_Shdr / Elf64_Shdr
ShdrSize(cls) == IF cls = FATELF_32BITS THEN Elf32ShdrSize ELSE Elf64ShdrSize
ShdrMember(cls, name) ==
    IF cls = FATELF_32BITS
    THEN CASE name = "sh_type" -> [at |-> 4, len |-> 4]
           [] name = "sh_offset" -> [at |-> 16, len |-> 4]
           [] name = "sh_size" -> [at |-> 20, len |-> 4]
    ELSE CASE name = "sh_type" -> [at |-> 4, len |-> 4]
           [] name = "sh_offset" -> [at |-> 24, len |-> 8]
           [] name = "sh_size" -> [at |-> 32, len |-> 8]

\* a value of len bytes as the file's byte order stores it
Stored(v, len, swapped) == IF swapped THEN Rev(Enc(v, len)) ELSE Enc(v, len)

\* data with bytes put at position pos
PutBytes(data, pos, bytes) ==
    [x \in 1..Len(data) |->
        IF x - 1 >= pos /\ x - 1 < pos + Len(bytes) THEN bytes[x - pos] ELSE data[x]]

RECURSIVE PutAll(_, _)
PutAll(data, patches) ==
    IF patches = <<>> THEN data
    ELSE PutAll(PutBytes(data, Head(patches).pos, Head(patches).bytes), Tail(patches))

Patch(pos, bytes) == [pos |-> pos, bytes |-> bytes]

\* a member of a struct stored at position base
PutMember(base, member, v, swapped) ==
    Patch(base + member.at, Stored(v, member.len, swapped))

Phdr(type, offset, filesz, align) ==
    [type |-> type, offset |-> offset, filesz |-> filesz, align |-> align]
Shdr(type, offset, size) == [type |-> type, offset |-> offset, size |-> size]

\* the description of an ELF file: class, byte order, where its program and
\* section header tables lie and what they hold, its size, and the bytes
\* (tail) stored at position tailAt
ElfLayout(name, cls, phoff, phdrs, shoff, shdrs) ==
    [name |-> name, cls |-> cls, phoff |-> phoff, phdrs |-> phdrs,
     shoff |-> shoff, shdrs |-> shdrs]

\* the entries k.. of the program header table put at L.phoff
RECURSIVE PutPhdrs(_, _, _, _)
PutPhdrs(data, L, swapped, k) ==
    IF k > Len(L.phdrs) THEN data
    ELSE LET at == L.phoff + (k - 1) * PhdrSize(L.cls)
             e == L.phdrs[k]
             entry == << PutMember(at, PhdrMember(L.cls, "p_type"), e.type, swapped),
                         PutMember(at, PhdrMember(L.cls, "p_offset"), e.offset, swapped),
                         PutMember(at, PhdrMember(L.cls, "p_filesz"), e.filesz, swapped),
                         PutMember(at, PhdrMember(L.cls, "p_align"), e.align, swapped) >>
         IN  PutPhdrs(PutAll(data, entry), L, swapped, k + 1)

\* the entries k.. of the section header table put at L.shoff
RECURSIVE PutShdrs(_, _, _, _)
PutShdrs(data, L, swapped, k) ==
    IF k > Len(L.shdrs) THEN data
    ELSE LET at == L.shoff + (k - 1) * ShdrSize(L.cls)
             e == L.shdrs[k]
             entry == << PutMember(at, ShdrMember(L.cls, "sh_type"), e.type, swapped),
                         PutMember(at, ShdrMember(L.cls, "sh_offset"), e.offset, swapped),
                         PutMember(at, ShdrMember(L.cls, "sh_size"), e.size, swapped) >>
         IN  PutShdrs(PutAll(data, entry), L, swapped, k + 1)

\* the bytes of the file of a layout, in the given byte order, fsize bytes
\* long, with the bytes tail stored at position tailAt
ElfBytes(L, swapped, fsize, tailAt, tail) ==
    LET c == L.cls
        ehdr == << Patch(0, ELF_MAGIC),
                   Patch(EI_CLASS, <<c>>),
                   Patch(EI_DATA, <<IF swapped THEN FATELF_BIGENDIAN ELSE FATELF_LITTLEENDIAN>>),
                   PutMember(0, EhdrMember(c, "e_phoff"), L.phoff, swapped),
                   PutMember(0, EhdrMember(c, "e_shoff"), L.shoff, swapped),
                   PutMember(0, EhdrMember(c, "e_phentsize"), PhdrSize(c), swapped),
                   PutMember(0, EhdrMember(c, "e_phnum"), Len(L.phdrs), swapped),
                   PutMember(0, EhdrMember(c, "e_shentsize"), ShdrSize(c), swapped),
                   PutMember(0, EhdrMember(c, "e_shnum"), Len(L.shdrs), swapped) >>
        blank == [x \in 1..fsize |-> 0]
        tables == PutShdrs(PutPhdrs(PutAll(blank, ehdr), L, swapped, 1), L, swapped, 1)
    IN  PutBytes(tables, tailAt, tail)

(***************************************************************************)
(* haiku_find_rsrc on a file (fatelf-haiku.c).  The state of one call is   *)
(* the record h: the file, the position in the call (pc), the file         *)
(* position of the descriptor (pos), the locals of haiku_elf_rsrc_offset   *)
(* (cls: ident[EI_CLASS], swapped: the byte order is not the host's,       *)
(* elfData: prog and sect, rsrcOffset, rsrcAlign), the caller's offset and *)
(* size, the value returned (ret) and the error the call ended with.       *)
(***************************************************************************)
NoTable == [offset |-> 0, header_size |-> 0, header_count |-> 0]

RsrcStart(file) ==
    [file |-> file, pc |-> "magic", pos |-> 0, cls |-> 0, swapped |-> FALSE,
     prog |-> NoTable, sect |-> NoTable, rsrcOffset |-> 0, rsrcAlign |-> 0,
     offset |-> 0, size |-> 0, ret |-> -1, err |-> "none"]

\* xfail raised while the file is read
rsrc_xfail(s, kind) == [s EXCEPT !.err = kind, !.pc = "failed"]

\* xread(fname, fd, buf, len, 1) at the file position can read len bytes
CanRead(s, len) == s.pos + len <= Len(s.file.data)

\* lines 278-298: haiku_rsrc_offset reads the magic of the file
rsrc_magic(s) ==
    LET t == [s EXCEPT !.pos = 0]
    IN  IF ~CanRead(t, 4) THEN rsrc_xfail(t, "IOError")
        ELSE IF Field(s.file.data, 0, 4) = ELF_MAGIC
        THEN [t EXCEPT !.pos = 4, !.pc = "ident"]
        ELSE [t EXCEPT !.pos = 4, !.ret = 0, !.pc = "done"]

\* lines 77-94: the identification, the byte order, back to position 0
elf_ident(s) ==
    LET t == [s EXCEPT !.pos = 0]
        ident == Field(s.file.data, 0, EI_NIDENT)
    IN  IF ~CanRead(t, EI_NIDENT) THEN rsrc_xfail(t, "IOError")
        ELSE IF Field(ident, 0, 4) # ELF_MAGIC
        THEN [t EXCEPT !.pos = EI_NIDENT, !.ret = 0, !.pc = "done"]
        ELSE [t EXCEPT !.pos = 0,
                       !.cls = ident[EI_CLASS + 1],
                       !.swapped = ident[EI_DATA + 1] # FATELF_LITTLEENDIAN,
                       !.pc = "ehdr"]

\* a member of the ELF header, through get16 / get32 / get64
EhdrGet(s, name) ==
    LET member == EhdrMember(s.cls, name)
    IN  get(Field(s.file.data, member.at, member.len), s.swapped)

\* lines 97-127: read the ELF header of the class, fill in elfData
elf_ehdr(s) ==
    IF s.cls # FATELF_32BITS /\ s.cls # FATELF_64BITS
    THEN rsrc_xfail(s, "MalformedELF")
    ELSE LET size == IF s.cls = FATELF_32BITS THEN Elf32EhdrSize ELSE Elf64EhdrSize
         IN  IF ~CanRead(s, size) THEN rsrc_xfail(s, "IOError")
             ELSE [s EXCEPT !.pos = size,
                            !.prog = [offset |-> EhdrGet(s, "e_phoff"),
                                      header_size |-> EhdrGet(s, "e_phentsize"),
                                      header_count |-> EhdrGet(s, "e_phnum")],
                            !.sect = [offset |-> EhdrGet(s, "e_shoff"),
                                      header_size |-> EhdrGet(s, "e_shentsize"),
                                      header_count |-> EhdrGet(s, "e_shnum")],
                            !.rsrcOffset = 0,
                            !.rsrcAlign = 0,
                            !.pc = "prog"]

\* lines 150-188: the loop over the program headers in the buffer read
RECURSIVE ScanPhdrs(_, _, _, _, _, _, _)
ScanPhdrs(headers, cls, swapped, i, count, rsrcOffset, rsrcAlign) ==
    IF i >= count THEN [rsrcOffset |-> rsrcOffset, rsrcAlign |-> rsrcAlign]
    ELSE LET at == i * PhdrSize(cls)
             member(name) == LET md == PhdrMember(cls, name)
                             IN  get(Field(headers, at + md.at, md.len), swapped)
         IN  IF member("p_type") = PT_NULL
             THEN ScanPhdrs(headers, cls, swapped, i + 1, count, rsrcOffset, rsrcAlign)
             ELSE ScanPhdrs(headers, cls, swapped, i + 1, count,
                            Max(rsrcOffset, member("p_offset") + member("p_filesz")),
                            Max(rsrcAlign, member("p_align")))

\* lines 137-189: the program header table, read at the file position
elf_prog(s) ==
    IF s.prog.offset = 0 THEN [s EXCEPT !.pc = "sect"]
    ELSE LET tableSize == s.prog.header_size * s.prog.header_count
             tableEnd == s.prog.offset + tableSize
             headers == Field(s.file.data, s.pos, tableSize)
             scan == ScanPhdrs(headers, s.cls, s.swapped, 0, s.prog.header_count,
                               Max(s.rsrcOffset, tableEnd), s.rsrcAlign)
         IN  IF ~CanRead(s, tableSize) THEN rsrc_xfail(s, "IOError")
             ELSE [s EXCEPT !.pos = s.pos + tableSize,
                            !.rsrcOffset = scan.rsrcOffset,
                            !.rsrcAlign = scan.rsrcAlign,
                            !.pc = "sect"]

\* lines 202-234: the loop over the section headers in the buffer read
RECURSIVE ScanShdrs(_, _, _, _, _, _)
ScanShdrs(headers, cls, swapped, i, count, rsrcOffset) ==
    IF i >= count THEN rsrcOffset
    ELSE LET at == i * ShdrSize(cls)
             member(name) == LET md == ShdrMember(cls, name)
                             IN  get(Field(headers, at + md.at, md.len), swapped)
         IN  IF member("sh_type") = SHT_NULL \/ member("sh_type") = SHT_NOBITS
             THEN ScanShdrs(headers, cls, swapped, i + 1, count, rsrcOffset)
             ELSE ScanShdrs(headers, cls, swapped, i + 1, count,
                            Max(rsrcOffset, member("sh_offset") + member("sh_size")))

\* lines 191-235: the section header table, read at the file position
elf_sect(s) ==
    IF s.sect.offset = 0 THEN [s EXCEPT !.pc = "align"]
    ELSE LET tableSize == s.sect.header_size * s.sect.header_count
             tableEnd == s.sect.offset + tableSize
             headers == Field(s.file.data, s.pos, tableSize)
             rsrcOffset == ScanShdrs(headers, s.cls, s.swapped, 0, s.sect.header_count,
                                     Max(s.rsrcOffset, tableEnd))
         IN  IF ~CanRead(s, tableSize) THEN rsrc_xfail(s, "IOError")
             ELSE [s EXCEPT !.pos = s.pos + tableSize,
                            !.rsrcOffset = rsrcOffset,
                            !.pc = "align"]

\* lines 262-263: the word is the resource magic, natively or byte-swapped
IsRsrcMagic(magic) ==
    ~(magic # HAIKU_RSRC_HEADER_MAGIC /\ xswap(magic) # HAIKU_RSRC_HEADER_MAGIC)

\* the position offset if four bytes can be read there and are the magic
MagicAt(data, offset) ==
    IF offset + RsrcMagicSize <= Len(data) /\ IsRsrcMagic(Field(data, offset, RsrcMagicSize))
    THEN offset ELSE -1

\* the file as the description of an ELF input: what the scan arrived at,
\* the size of the file, and whether the magic word lies at offset
Scanned(s, offset) ==
    Elf(s.file.name, 0, 0, s.cls, s.rsrcOffset, s.rsrcAlign, Len(s.file.data),
        MagicAt(s.file.data, offset))

\* lines 237-245: the alignment rule; haiku_rsrc_offset returns 1
elf_align(s) ==
    [s EXCEPT !.offset = haiku_elf_rsrc_offset(Scanned(s, 0)), !.pc = "parse"]

\* haiku_find_rsrc line 307: haiku_parse_rsrc_header(fname, fd, *offset, size)
rsrc_parse(s) ==
    LET hdr == haiku_parse_rsrc_header(Scanned(s, s.offset), s.offset, s.size)
        t == [s EXCEPT !.size = hdr.size]
    IN  IF hdr.fail THEN rsrc_xfail(t, "IOError")
        ELSE [t EXCEPT !.ret = IF hdr.ok THEN 1 ELSE 0, !.pc = "done"]

(***************************************************************************)
(* The files haiku_find_rsrc is called on: for each class and byte order,  *)
(* layouts of the header tables, each with nothing, a word cut short, the  *)
(* resource magic in either byte order, or other bytes behind the ELF data.*)
(***************************************************************************)
Layouts(c) ==
    LET H == IF c = FATELF_32BITS THEN Elf32EhdrSize ELSE Elf64EhdrSize
        P == PhdrSize(c)
        S == ShdrSize(c)
    IN  { ElfLayout("bare", c, 0, <<>>, 0, <<>>),
          ElfLayout("segments", c, H,
                    <<Phdr(PT_NULL, 400, 50, 8192), Phdr(1, 0, H + 2 * P + 30, 64)>>,
                    0, <<>>),
          ElfLayout("adjacent", c, H, <<Phdr(1, 0, H + P, 4)>>,
                    H + P, <<Shdr(SHT_NOBITS, 300, 100), Shdr(SHT_PROGBITS, H + P + 2 * S, 6)>>),
          ElfLayout("gap", c, H, <<Phdr(1, 0, H + P, 16)>>,
                    H + P + 8, <<Shdr(SHT_PROGBITS, H + P + 8 + S, 20)>>),
          ElfLayout("sections", c, 0, <<>>,
                    H + 8, <<Shdr(SHT_PROGBITS, H + 8 + S, 12)>>),
          ElfLayout("sections first", c, H + S, <<Phdr(1, 0, H + S + P + 9, 128)>>,
                    H, <<Shdr(SHT_PROGBITS, H + S + P, 9)>>) }

Tails ==
    { [kind |-> "none", bytes |-> <<>>],
      [kind |-> "short", bytes |-> <<0, 16>>],
      [kind |-> "native", bytes |-> HAIKU_RSRC_HEADER_MAGIC \o <<1, 2, 3, 4>>],
      [kind |-> "swapped", bytes |-> xswap(HAIKU_RSRC_HEADER_MAGIC) \o <<1, 2, 3, 4>>],
      [kind |-> "other", bytes |-> <<1, 2, 3, 4, 5, 6, 7, 8>>] }

\* the largest end of the tables and of the entries that occupy file space
RECURSIVE LayoutEnd(_, _)
LayoutEnd(L, k) ==
    IF k > Len(L.phdrs) + Len(L.shdrs)
    THEN Max(IF L.phoff # 0 THEN L.phoff + PhdrSize(L.cls) * Len(L.phdrs) ELSE 0,
             IF L.shoff # 0 THEN L.shoff + ShdrSize(L.cls) * Len(L.shdrs) ELSE 0)
    ELSE IF k <= Len(L.phdrs)
    THEN Max(LayoutEnd(L, k + 1),
             IF L.phdrs[k].type # PT_NULL THEN L.phdrs[k].offset + L.phdrs[k].filesz ELSE 0)
    ELSE LET e == L.shdrs[k - Len(L.phdrs)]
         IN  Max(LayoutEnd(L, k + 1),
                 IF e.type \notin {SHT_NULL, SHT_NOBITS} THEN e.offset + e.size ELSE 0)

\* the largest p_align of the program entries that are not PT_NULL
RECURSIVE LayoutAlign(_, _)
LayoutAlign(L, k) ==
    IF k > Len(L.phdrs) THEN 0
    ELSE Max(LayoutAlign(L, k + 1),
             IF L.phdrs[k].type # PT_NULL THEN L.phdrs[k].align ELSE 0)

\* where a resource follows the ELF data of the layout
TailAt(L) ==
    LET A == IF L.cls = FATELF_64BITS THEN 8 ELSE Max(32, LayoutAlign(L, 1))
        H == IF L.cls = FATELF_32BITS THEN Elf32EhdrSize ELSE Elf64EhdrSize
    IN  Max(H, ((LayoutEnd(L, 1) + A - 1) \div A) * A)

ElfFileOf(L, swapped, tail) ==
    [name |-> L.name, kind |-> "elf", layout |-> L, swapped |-> swapped, tail |-> tail.kind,
     tailAt |-> TailAt(L),
     data |-> ElfBytes(L, swapped, TailAt(L) + Len(tail.bytes), TailAt(L), tail.bytes)]

NoLayout == ElfLayout("", 0, 0, <<>>, 0, <<>>)

\* a file that is not an ELF file, of the given bytes
PlainFileOf(name, bytes) ==
    [name |-> name, kind |-> "other", layout |-> NoLayout, swapped |-> FALSE,
     tail |-> "none", tailAt |-> 0, data |-> bytes]

RsrcFiles ==
    { ElfFileOf(L, swapped, tail) :
        L \in Layouts(FATELF_32BITS) \cup Layouts(FATELF_64BITS),
        swapped \in BOOLEAN, tail \in Tails }
    \cup { PlainFileOf("text", <<35, 33, 47, 98, 105, 110>>),
           PlainFileOf("tiny", <<35, 33>>),
           PlainFileOf("cut", Field(ElfBytes(ElfLayout("bare", FATELF_32BITS, 0, <<>>, 0, <<>>),
                                             FALSE, Elf32EhdrSize, Elf32EhdrSize, <<>>), 0, 20)),
           PlainFileOf("class 3", PutBytes(ElfBytes(ElfLayout("bare", FATELF_32BITS, 0, <<>>, 0, <<>>),
                                                    FALSE, Elf32EhdrSize, Elf32EhdrSize, <<>>),
                                           EI_CLASS, <<3>>)) }

RsrcIdle == RsrcStart(PlainFileOf("", <<>>))

(***************************************************************************)
(* fatelf_glue (fatelf-glue.c).  The state of one call is the record g:    *)
(* the arguments (bins), the position in the function (pc), its locals     *)
(* (i, offset, binary_offset, header->records, resource), the output file  *)
(* (out, outpos; diskhdr is the record table last serialized into it),     *)
(* the global unlink_on_xfail, the write calls made so far (log) and the   *)
(* error the call ended with (err).  Indices i and resource.idx count      *)
(* from 0 as in the code; bins[i + 1] is the code's bins[i].               *)
(***************************************************************************)
NoFile == [exists |-> FALSE, data |-> <<>>]

GlueStart(bins, out) ==
    [bins |-> bins, pc |-> "enter", i |-> 0, offset |-> 0, binary_offset |-> 0,
     records |-> <<>>, resource |-> [idx |-> -1, offset |-> 0, size |-> 0],
     out |-> out, outpos |-> 0, diskhdr |-> <<>>, log |-> <<>>,
     unlink_on_xfail |-> "NULL", err |-> "none"]

\* xfail: unlink the registered output, clear the registration, exit(1)
xfail(s, kind) ==
    [s EXCEPT !.out = IF s.unlink_on_xfail # "NULL" THEN NoFile ELSE @,
              !.unlink_on_xfail = "NULL",
              !.err = kind,
              !.pc = "failed"]

\* xwrite / xwrite_zeros / xcopyfile on the output at its file position
xwrite(s, bytes, kind, idx) ==
    [s EXCEPT !.out.data = WriteAt(@, s.outpos, bytes),
              !.outpos = @ + Len(bytes),
              !.log = Append(@, [kind |-> kind, idx |-> idx,
                                 pos |-> s.outpos, len |-> Len(bytes)])]

\* lines 267-273: open the output (create, truncate), register it for unlink
glue_enter(s) ==
    [s EXCEPT !.out = [exists |-> TRUE, data |-> <<>>],
              !.outpos = 0,
              !.offset = FATELF_DISK_FORMAT_SIZE(Len(s.bins)),
              !.unlink_on_xfail = "out",
              !.pc = "reserve"]

\* the placeholder written without the check of the count
glue_reserve_unchecked(s) ==
    [xwrite(s, Zeros(s.offset), "placeholder", -1)
        EXCEPT !.resource.idx = -1, !.i = 0, !.pc = "read"]

\* lines 275-293: check the count, write the placeholder for the header
glue_reserve(s) ==
    IF Len(s.bins) = 0 \/ Len(s.bins) > MaxRecords
    THEN xfail(s, "TooManyRecords")
    ELSE [xwrite(s, Zeros(s.offset), "placeholder", -1)
            EXCEPT !.resource.idx = -1, !.i = 0, !.pc = "read"]

\* line 297: const uint64_t binary_offset = align_to_page(offset)
BinaryOffset_unaligned(offset) == offset
BinaryOffset(offset) == align_to_page(offset)

\* the record xread_elf_header fills in, with the offset of line 303
NewRecord(f, binary_offset) ==
    [machine |-> f.machine, osabi |-> f.osabi, osabi_version |-> f.osabi_version,
     word_size |-> f.word_size, byte_order |-> f.byte_order,
     offset |-> binary_offset, size |-> 0]

DuplicateTarget_adjacent(records, i) ==
    i > 0 /\ fatelf_record_matches(records[i + 1], records[i])

\* lines 306-310: some record j < i matches record i
DuplicateTarget(records, i) ==
    \E j \in 0..(i - 1) : fatelf_record_matches(records[i + 1], records[j + 1])

\* lines 294-310: open input i, read its ELF header, check for a duplicate
glue_read(s) ==
    LET f == s.bins[s.i + 1]
        binary_offset == BinaryOffset(s.offset)
        t == [s EXCEPT !.binary_offset = binary_offset]
        u == [t EXCEPT !.records = Append(@, NewRecord(f, binary_offset))]
    IN  IF f.kind = "missing" THEN xfail(t, "IOError")
        ELSE IF f.kind # "elf" THEN xfail(t, "MalformedELF")
        ELSE IF DuplicateTarget(u.records, s.i) THEN xfail(u, "DuplicateTarget")
        ELSE [u EXCEPT !.pc = "pad"]

\* a padding of bytes that are not zero
glue_pad_stale(s) ==
    [xwrite(s, [x \in 1..(s.binary_offset - s.offset) |-> OldByte], "pad", s.i)
        EXCEPT !.pc = "copy"]

\* line 313: pad the output up to the page boundary
glue_pad(s) ==
    [xwrite(s, Zeros(s.binary_offset - s.offset), "pad", s.i) EXCEPT !.pc = "copy"]

\* lines 316-319: detect the resource of input i; the descriptor after the call
DetectResource(resource, f, i) ==
    LET found == haiku_find_rsrc(f, resource.offset, resource.size)
    IN  [idx |-> IF found.ok /\ resource.idx = -1 THEN i ELSE resource.idx,
         offset |-> found.offset, size |-> found.size]

PayloadSize_whole(f, found, resource) == f.fsize

\* lines 321, 324: the payload size of input i
PayloadSize(f, found, resource) ==
    IF found THEN f.fsize - resource.size ELSE f.fsize

AfterCopy_once(i, n) == "header"

\* line 294: the loop goes on while i < bincount, then the header is written
AfterCopy(i, n) == IF i < n THEN "read" ELSE "header"

\* lines 316-330: detect the resource, copy the payload, advance the cursor
glue_copy(s) ==
    LET f == s.bins[s.i + 1]
        found == haiku_find_rsrc(f, s.resource.offset, s.resource.size)
        res == DetectResource(s.resource, f, s.i)
        size == PayloadSize(f, found.ok, res)
        t == [s EXCEPT !.resource = res]
    IN  IF found.fail THEN xfail(t, "IOError")
        ELSE [xwrite(t, FileBytes(f, 0, size), "payload", s.i)
                EXCEPT !.records[s.i + 1].size = size,
                       !.offset = s.binary_offset + size,
                       !.i = s.i + 1,
                       !.pc = AfterCopy(s.i + 1, Len(s.bins))]

\* line 334: xwrite_fatelf_header serializes the header at offset 0
glue_header(s) ==
    [xwrite([s EXCEPT !.outpos = 0], HeaderBytes(Len(s.bins)), "header", -1)
        EXCEPT !.diskhdr = s.records, !.pc = "rsrc"]

\* the resource written behind the record of the input that carries it
glue_rsrc_at_carrier(s) ==
    IF s.resource.idx < 0 THEN [s EXCEPT !.pc = "close"]
    ELSE LET f == s.bins[s.resource.idx + 1]
             fat == haiku_fat_rsrc_offset(<<s.diskhdr[s.resource.idx + 1]>>)
         IN  IF s.resource.offset + s.resource.size > f.fsize
             THEN xfail([s EXCEPT !.offset = fat.offset, !.outpos = fat.offset], "IOError")
             ELSE [xwrite([s EXCEPT !.offset = fat.offset, !.outpos = fat.offset],
                          FileBytes(f, s.resource.offset, s.resource.size),
                          "rsrc", s.resource.idx)
                     EXCEPT !.pc = "close"]

\* lines 338-349: copy the carried resource behind the last record
glue_rsrc(s) ==
    IF s.resource.idx < 0 THEN [s EXCEPT !.pc = "close"]
    ELSE LET f == s.bins[s.resource.idx + 1]
             fat == haiku_fat_rsrc_offset(s.diskhdr)
         IN  IF ~fat.ok THEN [s EXCEPT !.pc = "close"]
             ELSE IF s.resource.offset + s.resource.size > f.fsize
             THEN xfail([s EXCEPT !.offset = fat.offset, !.outpos = fat.offset], "IOError")
             ELSE [xwrite([s EXCEPT !.offset = fat.offset, !.outpos = fat.offset],
                          FileBytes(f, s.resource.offset, s.resource.size),
                          "rsrc", s.resource.idx)
                     EXCEPT !.pc = "close"]

glue_close_keep(s) == [s EXCEPT !.pc = "done"]

\* lines 351-356: close the output, clear the registration, return 0
glue_close(s) ==
    [s EXCEPT !.unlink_on_xfail = "NULL", !.pc = "done"]

GlueRunning(s) == s.pc \notin {"done", "failed"}

(***************************************************************************)
(* fatelf_merge_files, the leg for regular files that are neither ELF, AR  *)
(* nor FatELF (lines 528-584).  The state of one call is the record m:     *)
(* the contents of the inputs (files), the locals nleft, fds (TRUE: open), *)
(* nread and buffers, the read position of every input (pos), the loop     *)
(* index i, the output file and the warnings printed to stderr (the index  *)
(* of the input each names, counted from 0).                               *)
(***************************************************************************)
LitByte(v) == [k |-> "lit", f |-> "", p |-> v]
Bytes == {LitByte(0), LitByte(1)}

Min(a, b) == IF a < b THEN a ELSE b

\* SubSeq that is empty when the range is
Chunk(data, pos, len) == [x \in 1..len |-> data[pos + x]]

MergeStart(files, out) ==
    [files |-> files, pc |-> "open", i |-> 0, nleft |-> 0,
     fds |-> [k \in 1..Len(files) |-> FALSE],
     pos |-> [k \in 1..Len(files) |-> 0],
     nread |-> [k \in 1..Len(files) |-> 0],
     buffers |-> [k \in 1..Len(files) |-> <<>>],
     out |-> out, warned |-> <<>>]

MergeIdle == MergeStart(<<>>, NoFile)

InitialLeft_shortest(files) ==
    LET k == CHOOSE a \in 1..Len(files) : \A b \in 1..Len(files) : Len(files[a]) <= Len(files[b])
    IN  Len(files[k])

\* line 533: off_t nleft = st.st_size, the size of files[0]
InitialLeft(files) == Len(files[1])

\* the output opened for appending, its old content kept
merge_open_append(s) ==
    [s EXCEPT !.nleft = InitialLeft(s.files),
              !.out = [exists |-> TRUE, data |-> s.out.data],
              !.fds = [k \in 1..Len(s.files) |-> TRUE],
              !.i = 0,
              !.pc = IF InitialLeft(s.files) > 0 THEN "read" ELSE "cleanup"]

\* line 543: while (nleft > 0)
MergeLoop(nleft) == IF nleft > 0 THEN "read" ELSE "cleanup"

\* lines 529-539: open the output (create, truncate) and every input
merge_open(s) ==
    [s EXCEPT !.nleft = InitialLeft(s.files),
              !.out = [exists |-> TRUE, data |-> <<>>],
              !.fds = [k \in 1..Len(s.files) |-> TRUE],
              !.i = 0,
              !.pc = MergeLoop(InitialLeft(s.files))]

\* lines 570-573: the next input of this round, or the end of the round
merge_advance(s) ==
    IF s.i + 1 < Len(s.files) THEN [s EXCEPT !.i = s.i + 1]
    ELSE [s EXCEPT !.i = 0,
                   !.nleft = s.nleft - s.nread[1],
                   !.pc = MergeLoop(s.nleft - s.nread[1])]

\* lines 552, 559: input i differs from input 0 in this round
Differs(nread, buffers, i) ==
    \/ nread[i + 1] # nread[1]
    \/ Chunk(buffers[1], 0, nread[1]) # Chunk(buffers[i + 1], 0, nread[1])

\* lines 544-570: one pass of the for loop, for input i
merge_read(s) ==
    LET k == s.i + 1
        n == Min(BufSize, Len(s.files[k]) - s.pos[k])
        t == [s EXCEPT !.nread[k] = n,
                       !.buffers[k] = Chunk(s.files[k], s.pos[k], n),
                       !.pos[k] = @ + n]
    IN  IF ~s.fds[k] THEN merge_advance(s)
        ELSE IF s.i > 0
        THEN IF Differs(t.nread, t.buffers, s.i)
             THEN merge_advance([t EXCEPT !.warned = Append(@, s.i), !.fds[k] = FALSE])
             ELSE merge_advance(t)
        ELSE merge_advance([t EXCEPT !.out.data = @ \o t.buffers[1]])

\* lines 575-583: close what is open
merge_cleanup(s) ==
    [s EXCEPT !.fds = [k \in 1..Len(s.files) |-> FALSE], !.pc = "done"]


(***************************************************************************)
(* fatelf_glue and the byte-equality merge run to their end, as the calls  *)
(* made by fatelf_merge_files.                                             *)
(***************************************************************************)
GlueStep(s) ==
    CASE s.pc = "enter" -> glue_enter(s)
      [] s.pc = "reserve" -> glue_reserve(s)
      [] s.pc = "read" -> glue_read(s)
      [] s.pc = "pad" -> glue_pad(s)
      [] s.pc = "copy" -> glue_copy(s)
      [] s.pc = "header" -> glue_header(s)
      [] s.pc = "rsrc" -> glue_rsrc(s)
      [] s.pc = "close" -> glue_close(s)

RECURSIVE GlueRun(_)
GlueRun(s) == IF GlueRunning(s) THEN GlueRun(GlueStep(s)) ELSE s

MergeStep(s) ==
    CASE s.pc = "open" -> merge_open(s)
      [] s.pc = "read" -> merge_read(s)
      [] s.pc = "cleanup" -> merge_cleanup(s)

RECURSIVE MergeRun(_)
MergeRun(s) == IF s.pc # "done" THEN MergeRun(MergeStep(s)) ELSE s

(***************************************************************************)
(* Recursive merge (fatelf_recursive_glue, fatelf_merge_files).  A tree    *)
(* maps the relative paths "" (the root itself) and "/a" to nodes; a node  *)
(* has a file type, and a link target or a file.  The state r holds the    *)
(* input trees (roots), the output tree (out), the number of the           *)
(* invocation (run), the position in fatelf_recursive_glue (pc, ftsidx,    *)
(* ent: the index of the entry fts_read returned), the locals files and    *)
(* merge_done, the global unlink_on_xfail, the error the invocation ended  *)
(* with, the output tree as the first invocation left it (snap), the      *)
(* calls of fatelf_merge_files made (merged), the value the running call   *)
(* returns (ret), the values the calls returned (returned) and the exit    *)
(* code of the process (exit, -1 while it runs).                           *)
(***************************************************************************)
Paths == {"", "/a"}

Node(type, link, f, lit) == [type |-> type, link |-> link, f |-> f, lit |-> lit]
NoPlainFile == NotElf("", "none", 0)
None == Node("none", "", NoPlainFile, <<>>)
Dir == Node("dir", "", NoPlainFile, <<>>)
Lnk(target) == Node("lnk", target, NoPlainFile, <<>>)
Data(id, lit) == Node("reg", "", NotElf(id, "other", Len(lit)), lit)
ElfFile(f) == Node("reg", "", f, <<>>)
FatFile == Node("reg", "", NotElf("fat", "fat", 32), <<>>)
\* a regular file that xidentify_binary classifies as an ar archive
ArFile == Node("reg", "", NotElf("ar", "ar", 8), <<>>)
\* a symbolic link whose target readlink cannot read
UnreadableLnk == Node("lnk", "", NotElf("", "unreadable", 0), <<>>)

\* the bytes of a regular file of an input tree
ContentOf(node) ==
    IF node.f.kind = "other" THEN node.lit ELSE FileBytes(node.f, 0, node.f.fsize)

ChildNodes ==
    { None, Dir, Lnk("x"), Lnk("y"),
      Data("d0", <<LitByte(0)>>), Data("d1", <<LitByte(1), LitByte(1)>>),
      ElfFile(Elf("a32", 3, 0, FATELF_32BITS, 52, 4, 64, -1)),
      ElfFile(Elf("b64", 62, 0, FATELF_64BITS, 66, 8, 88, 72)),
      FatFile, ArFile, UnreadableLnk }

\* an input directory with its one entry, or a root that is a regular file
Trees ==
    { [p \in Paths |-> IF p = "" THEN Dir ELSE c] : c \in ChildNodes }
    \cup { [p \in Paths |-> IF p = "" THEN Data("d0", <<LitByte(0)>>) ELSE None] }

OutNode(type, link, bytes) == [type |-> type, link |-> link, bytes |-> bytes]
OutNone == OutNode("none", "", <<>>)
OutDir == OutNode("dir", "", <<>>)

\* fts_read on a tree, FTS_PHYSICAL: pre-order, directories again post-order
Entries(tree) ==
    <<[rel |-> "", info |-> "D"]>>
    \o (IF tree["/a"].type = "none" THEN <<>>
        ELSE IF tree["/a"].type = "dir"
        THEN <<[rel |-> "/a", info |-> "D"], [rel |-> "/a", info |-> "DP"]>>
        ELSE <<[rel |-> "/a", info |-> "F"]>>)
    \o <<[rel |-> "", info |-> "DP"]>>

\* the output directory before the first invocation: absent, empty, or
\* holding at "/a" a regular file or a symbolic link
OutTrees ==
    { [p \in Paths |-> OutNone],
      [p \in Paths |-> IF p = "" THEN OutDir ELSE OutNone],
      [p \in Paths |-> IF p = "" THEN OutDir ELSE OutNode("reg", "", <<OldByte>>)],
      [p \in Paths |-> IF p = "" THEN OutDir ELSE OutNode("lnk", "old", <<>>)] }

RecStart(roots, out) ==
    [roots |-> roots, out |-> out, run |-> 1, pc |-> "main", ftsidx |-> 0,
     ent |-> 1, files |-> <<>>, merge_done |-> FALSE,
     unlink_on_xfail |-> "NULL", err |-> "none", snap |-> out, merged |-> <<>>,
     ret |-> 0, returned |-> <<>>, exit |-> -1]

RecIdle == [RecStart(<<>>, [p \in Paths |-> OutNone]) EXCEPT !.run = 0]

\* xfail in the recursive tool: unlink the registered path, exit(1)
rec_xfail(s, kind) ==
    [s EXCEPT !.out = IF s.unlink_on_xfail # "NULL"
                      THEN [@ EXCEPT ![s.unlink_on_xfail] = OutNone] ELSE @,
              !.unlink_on_xfail = "NULL",
              !.err = kind,
              !.exit = 1,
              !.pc = "exited"]

\* main, lines 769-776: fewer than two arguments is a usage error
rec_main(s) ==
    IF 1 + Len(s.roots) < 2 THEN rec_xfail(s, "Usage")
    ELSE [s EXCEPT !.pc = "precheck"]

\* a check of the first input path only
rec_precheck_first_only(s) ==
    IF s.roots[1][""].type # "dir"
    THEN rec_xfail(s, "NotADirectory")
    ELSE [s EXCEPT !.ftsidx = 0, !.ent = 1, !.pc = "walk"]

\* lines 643-650: every input path must be a directory
rec_precheck(s) ==
    IF \E d \in 1..Len(s.roots) : s.roots[d][""].type # "dir"
    THEN rec_xfail(s, "NotADirectory")
    ELSE [s EXCEPT !.ftsidx = 0, !.ent = 1, !.pc = "walk"]

\* lines 706-713: the target exists, this is not the first iterated
\* directory, and the list built so far holds a path that exists
MergeDoneNow(ftsidx, targetExists, files) ==
    ftsidx > 0 /\ targetExists /\ Len(files) > 0

\* lines 696-725: the list of the peers of rel, and merge_done
RECURSIVE CollectFrom(_, _, _, _, _)
CollectFrom(s, rel, diridx, files, merge_done) ==
    IF diridx = Len(s.roots)
    THEN [fail |-> FALSE, files |-> files, merge_done |-> merge_done]
    ELSE LET done == merge_done
                     \/ MergeDoneNow(s.ftsidx, s.out[rel].type # "none", files)
             here == s.roots[diridx + 1][rel]
             list == IF here.type # "none" THEN Append(files, diridx) ELSE files
         IN  IF here.type # "none" /\ here.type # s.roots[list[1] + 1][rel].type
             THEN [fail |-> TRUE, files |-> list, merge_done |-> done]
             ELSE CollectFrom(s, rel, diridx + 1, list, done)

\* the parent directory of the target exists
ParentIsDir(out, rel) == rel = "" \/ out[""].type = "dir"

\* a directory merge that accepts an existing target of any type
merge_dir_unverified(s, rel) ==
    IF s.out[rel].type = "none"
    THEN IF ParentIsDir(s.out, rel)
         THEN [s EXCEPT !.out[rel] = OutDir]
         ELSE rec_xfail(s, "IOError")
    ELSE s

\* lines 499-508: mkdir, or verify that the existing target is a directory
merge_dir(s, rel) ==
    IF s.out[rel].type = "none"
    THEN IF ParentIsDir(s.out, rel)
         THEN [s EXCEPT !.out[rel] = OutDir]
         ELSE rec_xfail(s, "IOError")
    ELSE IF s.out[rel].type # "dir" THEN rec_xfail(s, "TypeMismatch")
    ELSE s

\* a symlink merge that replaces the target of an existing link
merge_symlink_replace(s, rel, in) ==
    IF in.f.kind = "unreadable" THEN [s EXCEPT !.ret = 1]
    ELSE IF s.out[rel].type \in {"none", "lnk"}
    THEN IF ParentIsDir(s.out, rel)
         THEN [s EXCEPT !.out[rel] = OutNode("lnk", in.link, <<>>)]
         ELSE rec_xfail(s, "IOError")
    ELSE rec_xfail(s, "TypeMismatch")

\* lines 588-620: symlink, or verify that the existing target is a symlink;
\* when readlink fails the function returns 1
merge_symlink(s, rel, in) ==
    IF in.f.kind = "unreadable" THEN [s EXCEPT !.ret = 1]
    ELSE IF s.out[rel].type = "none"
    THEN IF ParentIsDir(s.out, rel)
         THEN [s EXCEPT !.out[rel] = OutNode("lnk", in.link, <<>>)]
         ELSE rec_xfail(s, "IOError")
    ELSE IF s.out[rel].type # "lnk" THEN rec_xfail(s, "TypeMismatch")
    ELSE s

\* the output file as open(2) with O_CREAT finds it
OutFile(s, rel) ==
    IF s.out[rel].type = "reg" THEN [exists |-> TRUE, data |-> s.out[rel].bytes]
    ELSE NoFile

\* line 521: fatelf_glue(out, files, filecount)
merge_elf(s, rel) ==
    LET bins == [k \in 1..Len(s.files) |-> s.roots[s.files[k] + 1][rel].f]
        end == GlueRun(GlueStart(bins, OutFile(s, rel)))
        t == [s EXCEPT !.out[rel] = IF end.out.exists
                                    THEN OutNode("reg", "", end.out.data)
                                    ELSE OutNone,
                       !.unlink_on_xfail = "NULL"]
    IN  IF end.pc = "failed" THEN [t EXCEPT !.err = end.err, !.exit = 1, !.pc = "exited"]
        ELSE t

\* lines 528-584: the byte-equality merge of the peers
merge_bytes(s, rel) ==
    LET files == [k \in 1..Len(s.files) |-> ContentOf(s.roots[s.files[k] + 1][rel])]
        end == MergeRun(MergeStart(files, OutFile(s, rel)))
    IN  [s EXCEPT !.out[rel] = OutNode("reg", "", end.out.data)]

\* lines 522-525: an ar archive is announced and traversed (ar_dostuff);
\* nothing is written to the target
merge_ar(s, rel) == s

\* open(out, O_CREAT | O_TRUNC) succeeds: the target is a regular file or
\* absent, in a directory
CanOpenOut(out, rel) == out[rel].type \in {"none", "reg"} /\ ParentIsDir(out, rel)

\* a merger that does not refuse a FatELF first input
merge_regular_fat_as_bytes(s, rel, in) ==
    IF in.f.kind = "ar" THEN merge_ar(s, rel)
    ELSE IF ~CanOpenOut(s.out, rel) THEN rec_xfail(s, "IOError")
    ELSE IF in.f.kind = "elf" THEN merge_elf(s, rel)
    ELSE merge_bytes(s, rel)

\* lines 510-586: a regular first input, by the class of its leading bytes
merge_regular(s, rel, in) ==
    IF in.f.kind = "ar" THEN merge_ar(s, rel)
    ELSE IF in.f.kind = "fat" THEN rec_xfail(s, "UnsupportedInput")
    ELSE IF ~CanOpenOut(s.out, rel) THEN rec_xfail(s, "IOError")
    ELSE IF in.f.kind = "elf" THEN merge_elf(s, rel)
    ELSE merge_bytes(s, rel)

\* lines 488-631: fatelf_merge_files(target, files, filecount)
fatelf_merge_files(s, rel) ==
    LET in == s.roots[s.files[1] + 1][rel]
        t == [s EXCEPT !.merged = Append(@, [run |-> s.run, ftsidx |-> s.ftsidx,
                                             rel |-> rel, files |-> s.files]),
                       !.ret = 0]
        u == IF in.type = "dir" THEN merge_dir(t, rel)
             ELSE IF in.type = "reg" THEN merge_regular(t, rel, in)
             ELSE merge_symlink(t, rel, in)
    IN  IF u.pc = "exited" THEN u ELSE [u EXCEPT !.returned = Append(@, u.ret)]

CurrentEntry(s) == Entries(s.roots[s.ftsidx + 1])[s.ent]

\* lines 664-675, 738: the next entry of the walk; a post-order entry is
\* skipped; at the end of a tree the next root, at the end of all return 0
rec_next(s) ==
    IF s.ent < Len(Entries(s.roots[s.ftsidx + 1]))
    THEN [s EXCEPT !.ent = s.ent + 1, !.pc = "walk"]
    ELSE IF s.ftsidx + 1 < Len(s.roots)
    THEN [s EXCEPT !.ftsidx = s.ftsidx + 1, !.ent = 1, !.pc = "walk"]
    ELSE [s EXCEPT !.exit = 0, !.pc = "exited"]

\* the list of peers built without the comparison of the file types
rec_collect_unverified(s) ==
    LET c == CollectFrom(s, CurrentEntry(s).rel, 0, <<>>, FALSE)
    IN  [s EXCEPT !.files = SelectSeq([k \in 1..Len(s.roots) |-> k - 1],
                                      LAMBDA j : s.roots[j + 1][CurrentEntry(s).rel].type # "none"),
                  !.merge_done = c.merge_done, !.pc = "merge"]

\* lines 692-727: build the list of peers of the entry
rec_collect(s) ==
    LET c == CollectFrom(s, CurrentEntry(s).rel, 0, <<>>, FALSE)
        t == [s EXCEPT !.files = c.files, !.merge_done = c.merge_done]
    IN  IF c.fail THEN rec_xfail(t, "TypeMismatch") ELSE [t EXCEPT !.pc = "merge"]

\* lines 729-736: merge the peers unless a merge was already done
rec_merge(s) ==
    IF s.merge_done THEN rec_next(s)
    ELSE LET t == fatelf_merge_files(s, CurrentEntry(s).rel)
         IN  IF t.pc = "exited" THEN t ELSE rec_next(t)

(***************************************************************************)
(* ar_dostuff (fatelf-glue.c lines 359-486) on an archive.  The archive is *)
(* a sequence of characters; a member is its 60-character header (struct   *)
(* ar_hdr) and its payload.  The state ar holds the file and the file      *)
(* position (pos), the header read last (hdr), the locals name, fsize and  *)
(* pos of the loop (name, fsize, epos), the string table with its size     *)
(* (has_table: string_table != NULL), the members handed to               *)
(* xidentify_binary and printed (reported), the largest index at which the *)
(* string table was read by the last lookup (maxread, -1: none) and the    *)
(* error the call ended with.  Every header of the model holds a decimal size.            *)
(***************************************************************************)
ARMAG == <<"!", "<", "a", "r", "c", "h", ">", "\n">>
SARMAG == 8
AR_EFMT1 == <<"#", "1", "/">>
SAR_EFMT1 == 3
\* the grave accent and the line feed that end a header
ARFMAG == <<"grave", "\n">>
ArNameSize == 16
ArDateSize == 12
ArUidSize == 6
ArGidSize == 6
ArModeSize == 8
ArSizeSize == 10
ArFmagSize == 2
ArHdrSize ==
    ArNameSize + ArDateSize + ArUidSize + ArGidSize + ArModeSize + ArSizeSize + ArFmagSize

DigitChars == <<"0", "1", "2", "3", "4", "5", "6", "7", "8", "9">>
isdigit(c) == \E d \in 1..10 : DigitChars[d] = c
DigitVal(c) == (CHOOSE d \in 1..10 : DigitChars[d] = c) - 1

\* the decimal digits of n
RECURSIVE DecStr(_)
DecStr(n) ==
    IF n < 10 THEN <<DigitChars[n + 1]>>
    ELSE Append(DecStr(n \div 10), DigitChars[(n % 10) + 1])

\* a header field: the text, right-padded with spaces
PadField(text, n) == [x \in 1..n |-> IF x <= Len(text) THEN text[x] ELSE " "]

\* struct ar_hdr of a member
ArHdr(name, size, fmag) ==
    PadField(name, ArNameSize) \o PadField(<<"0">>, ArDateSize)
    \o PadField(<<"0">>, ArUidSize) \o PadField(<<"0">>, ArGidSize)
    \o PadField(<<"6", "4", "4">>, ArModeSize) \o PadField(DecStr(size), ArSizeSize)
    \o fmag

ArMember(name, payload, fmag) == ArHdr(name, Len(payload), fmag) \o payload

\* the members an archive of the model is made of: plain members with a
\* GNU and a BSD short name, string tables with and without a closing '/',
\* GNU long-name references, a BSD long name in the payload, the GNU symbol
\* index, and a member whose header does not end in ARFMAG
ArMembers ==
    { ArMember(<<"a", ".", "o", "/">>, <<"x", "y">>, ARFMAG),
      ArMember(<<"b", ".", "o">>, <<"\\177", "E", "L", "F">>, ARFMAG),
      ArMember(<<"/", "/">>, <<"a", "b", "/", "\n", "c", "d", "/", "\n">>, ARFMAG),
      ArMember(<<"/", "/">>, <<"l", "m", "n", "o">>, ARFMAG),
      ArMember(<<"/", "0">>, <<"p", "q">>, ARFMAG),
      ArMember(<<"/", "2">>, <<"r", "s">>, ARFMAG),
      ArMember(<<"/", "4">>, <<"t", "u">>, ARFMAG),
      ArMember(<<"#", "1", "/", "4">>, <<"l", "o", "n", "g", "v", "w">>, ARFMAG),
      ArMember(<<"/">>, <<"s", "y", "m", "s">>, ARFMAG),
      ArMember(<<"c", ".", "o", "/">>, <<"z", "z">>, <<"x", "x">>) }

RECURSIVE Flatten(_)
Flatten(seqs) == IF seqs = <<>> THEN <<>> ELSE Head(seqs) \o Flatten(Tail(seqs))

ArFiles == { ARMAG \o Flatten(ms) : ms \in SeqsUpTo(ArMembers, MaxMembers) }

ArStart(file) ==
    [file |-> file, pos |-> 0, pc |-> "magic", hdr |-> <<>>, name |-> <<>>,
     fsize |-> 0, epos |-> 0, string_table |-> <<>>, has_table |-> FALSE,
     string_table_size |-> 0, hdr_end |-> 0, reported |-> <<>>, maxread |-> -1, err |-> "none"]

ArIdle == [ArStart(<<>>) EXCEPT !.pc = "idle"]

\* xfail in ar_dostuff: exit(1)
ar_xfail(s, kind) == [s EXCEPT !.err = kind, !.pc = "failed"]

\* the characters [off, off + len) of a sequence, off counted from 0
Chars(seq, off, len) == [x \in 1..len |-> seq[off + x]]

\* xread(fname, fd, buf, len, must_read): the number of characters read
ar_can_read(s, len) == Min(len, Max(Len(s.file) - s.pos, 0))

\* lines 365-366: open the archive, read SARMAG characters (must_read)
ar_magic(s) ==
    IF ar_can_read(s, SARMAG) < SARMAG THEN ar_xfail(s, "IOError")
    ELSE [s EXCEPT !.pos = s.pos + SARMAG, !.pc = "header"]

\* lines 369, 485: read the next struct ar_hdr; a short read ends the loop
ar_header(s) ==
    LET n == ar_can_read(s, ArHdrSize)
    IN  IF n = ArHdrSize
        THEN [s EXCEPT !.hdr = Chars(s.file, s.pos, ArHdrSize),
                       !.pos = s.pos + ArHdrSize, !.pc = "name"]
        ELSE [s EXCEPT !.pos = s.pos + n, !.pc = "done"]

\* sscanf(text, "%ld"): leading white space is skipped, then the digits read
RECURSIVE ScanDigits(_, _, _)
ScanDigits(text, k, val) ==
    IF k <= Len(text) /\ isdigit(text[k])
    THEN ScanDigits(text, k + 1, 10 * val + DigitVal(text[k]))
    ELSE val

RECURSIVE SkipSpace(_, _)
SkipSpace(text, k) ==
    IF k <= Len(text) /\ text[k] \in {" ", "\n"} THEN SkipSpace(text, k + 1) ELSE k

ScanLong(text) == ScanDigits(text, SkipSpace(text, 1), 0)

\* the fields of struct ar_hdr
ar_name_of(hdr) == Chars(hdr, 0, ArNameSize)
ar_size_of(hdr) == Chars(hdr, ArHdrSize - ArFmagSize - ArSizeSize, ArSizeSize + ArFmagSize)
ar_fmag_of(hdr) == Chars(hdr, ArHdrSize - ArFmagSize, ArFmagSize)

\* lines 381-403: the name without its right padding; a closing '/' is cut
\* unless the name starts with '/'
TrimName(field) ==
    LET used == { i \in 1..Len(field) : field[i] # " " }
    IN  IF used = {} THEN field
        ELSE LET i == CHOOSE u \in used : \A v \in used : v <= u
             IN  IF field[i] = "/" /\ i > 1 /\ field[1] # "/"
                 THEN SubSeq(field, 1, i - 1)
                 ELSE SubSeq(field, 1, i)

\* lines 374-403: the position of the payload, the size and the name
ar_entry(s) ==
    [s EXCEPT !.epos = s.pos,
              !.hdr_end = s.pos,
              !.fsize = ScanLong(ar_size_of(s.hdr)),
              !.name = TrimName(ar_name_of(s.hdr)),
              !.pc = "resolve"]

HasPrefix(text, prefix) ==
    Len(text) >= Len(prefix) /\ SubSeq(text, 1, Len(prefix)) = prefix

\* a scan that takes the rest of the table for the name
TableScan_whole(table, offset) ==
    [len |-> Len(table) - offset, last |-> Len(table)]

\* lines 440-441: the loop tests *src != '/' before name_len < name_max; the
\* length of the name and the index of the last character of the table read
TableScan(table, offset) ==
    LET size == Len(table)
        stops == { p \in offset..(size - 1) : table[p + 1] = "/" }
    IN  IF stops # {}
        THEN LET p == CHOOSE q \in stops : \A t \in stops : q <= t
             IN  [len |-> p - offset, last |-> p]
        ELSE [len |-> size - offset, last |-> size]

\* a BSD name read without the size of the member reduced
ar_bsd_name_keep_size(s) ==
    LET name_size == ScanLong(SubSeq(s.name, SAR_EFMT1 + 1, Len(s.name)))
    IN  IF ar_can_read(s, name_size) < name_size THEN ar_xfail(s, "IOError")
        ELSE [s EXCEPT !.name = Chars(s.file, s.pos, name_size),
                       !.pos = s.pos + name_size,
                       !.epos = s.pos + name_size,
                       !.pc = "dispatch"]

\* lines 406-420: the name of a BSD "#1/<N>" member is read from the payload
ar_bsd_name(s) ==
    LET name_size == ScanLong(SubSeq(s.name, SAR_EFMT1 + 1, Len(s.name)))
    IN  IF ar_can_read(s, name_size) < name_size THEN ar_xfail(s, "IOError")
        ELSE [s EXCEPT !.name = Chars(s.file, s.pos, name_size),
                       !.fsize = s.fsize - name_size,
                       !.pos = s.pos + name_size,
                       !.epos = s.pos + name_size,
                       !.pc = "dispatch"]

\* lines 421-446: the name of a GNU "/<offset>" member is taken from the
\* string table
ar_gnu_name(s) ==
    LET table_offset == ScanLong(SubSeq(s.name, 2, Len(s.name)))
        scan == TableScan(s.string_table, table_offset)
    IN  IF table_offset >= s.string_table_size THEN ar_xfail(s, "MalformedAR")
        ELSE [s EXCEPT !.name = Chars(s.string_table, table_offset, scan.len),
                       !.maxread = scan.last,
                       !.pc = "dispatch"]

\* lines 405-446: the long file name extensions
ar_resolve(s) ==
    IF HasPrefix(s.name, AR_EFMT1) THEN ar_bsd_name(s)
    ELSE IF Len(s.name) >= 2 /\ s.name[1] = "/" /\ isdigit(s.name[2]) /\ s.has_table
    THEN ar_gnu_name(s)
    ELSE [s EXCEPT !.pc = "dispatch"]

\* xidentify_binary(name, fd, pos): the class of the characters at pos
ar_identify(file, pos) ==
    IF Len(file) >= pos + 4 /\ Chars(file, pos, 4) = <<"\\177", "E", "L", "F">>
    THEN "ELF" ELSE "REG"

\* lines 449-459: the member "//" becomes the string table
ar_capture(s) ==
    LET t == [s EXCEPT !.pos = s.epos]
    IN  IF ar_can_read(t, s.fsize) < s.fsize THEN ar_xfail(t, "IOError")
        ELSE [t EXCEPT !.string_table = Chars(s.file, s.epos, s.fsize),
                       !.string_table_size = s.fsize,
                       !.has_table = TRUE,
                       !.maxread = -1,
                       !.pos = s.epos + s.fsize,
                       !.pc = "header"]

\* lines 465-482: the member is identified and printed, the file position
\* moves to the end of its payload
ar_report(s) ==
    [s EXCEPT !.reported = Append(@, [name |-> s.name, size |-> s.fsize,
                                      data_offset |-> s.epos,
                                      hdr_end |-> s.hdr_end,
                                      hdr_size |-> ScanLong(ar_size_of(s.hdr)),
                                      hdr_name |-> TrimName(ar_name_of(s.hdr)),
                                      fmag |-> ar_fmag_of(s.hdr),
                                      binfmt |-> ar_identify(s.file, s.epos)]),
              !.pos = s.epos + s.fsize,
              !.pc = "header"]

\* lines 448-482
ar_dispatch(s) ==
    IF s.name = <<"/", "/">> THEN ar_capture(s) ELSE ar_report(s)

(***************************************************************************)
(* The fatelf-gcc driver (fatelf-gcc.c, main lines 540-683) behind the     *)
(* parsing of its arguments.  The state gcc holds the -arch values of the  *)
(* driver arguments (arch_flags), whether an argument that is not          *)
(* supported with several architectures was given (nofat), the compiler    *)
(* set (compilers: the architecture of each), the loop index i, the        *)
(* registered temporary outputs (temp_output_args), the temporary files    *)
(* that exist (fs), the commands handed to exec_command in order (execs),  *)
(* the error and the exit code (-1 while the driver runs).                 *)
(***************************************************************************)
\* architectures; no compiler is installed for "nocc"
Archs == {"x86", "arm", "nocc"}
HostArch == "x86"
output_file == "a.out"

GccStart(arch_flags, nofat) ==
    [arch_flags |-> arch_flags, nofat |-> nofat, compilers |-> <<>>, i |-> 0,
     pc |-> "start", temp_output_args |-> <<>>, fs |-> {}, execs |-> <<>>,
     err |-> "none", exit |-> -1]

GccIdle == [GccStart(<<>>, FALSE) EXCEPT !.pc = "idle"]

\* lines 220-257: a compiler is appended unless the set holds the architecture
RECURSIVE append_compilers(_, _)
append_compilers(compilers, archs) ==
    IF archs = <<>> THEN compilers
    ELSE append_compilers(
            IF \E k \in 1..Len(compilers) : compilers[k] = Head(archs)
            THEN compilers ELSE Append(compilers, Head(archs)),
            Tail(archs))

\* lines 456-462: unlink every registered temporary output
clean_output_files(s) ==
    [s EXCEPT !.fs = @ \ { s.temp_output_args[k] : k \in 1..Len(s.temp_output_args) }]

\* xfail, exit(1) and return 1 of main
gcc_exit(s, kind, code) == [s EXCEPT !.err = kind, !.exit = code, !.pc = "exited"]

\* lines 545-575: the compilers of the -arch flags, the check of the
\* arguments not supported with several architectures, the default compiler
gcc_start(s) ==
    LET set == append_compilers(<<>>, s.arch_flags)
    IN  IF Len(set) > 1 /\ s.nofat THEN gcc_exit([s EXCEPT !.compilers = set], "Usage", 1)
        ELSE [s EXCEPT !.compilers = IF set = <<>> THEN <<HostArch>> ELSE set,
                       !.i = 0, !.pc = "output"]

\* the name mkstemp makes of the template for compiler i
TempName(i) == <<"tmp", i>>

\* the output path of compiler i
CompilerOutput(s, i) == IF Len(s.compilers) = 1 THEN output_file ELSE TempName(i)

\* lines 616-631: the output of compiler i; with several compilers a
\* temporary file is made and registered
gcc_output(s, mkstemp_ok) ==
    IF Len(s.compilers) = 1 THEN [s EXCEPT !.pc = "find"]
    ELSE IF ~mkstemp_ok THEN gcc_exit(clean_output_files(s), "IOError", 1)
    ELSE [s EXCEPT !.fs = @ \cup {TempName(s.i)},
                   !.temp_output_args = Append(@, TempName(s.i)),
                   !.pc = "find"]

\* find_tool_bin, lines 403-432: NULL when no compiler for the architecture
\* can be executed
find_tool_bin(arch) == arch # "nocc"

\* a lookup failure that leaves the temporary outputs in place
gcc_find_no_cleanup(s) ==
    IF ~find_tool_bin(s.compilers[s.i + 1]) THEN gcc_exit(s, "NotFound", 1)
    ELSE [s EXCEPT !.pc = "exec"]

\* lines 633-639: find the compiler of the architecture
gcc_find(s) ==
    IF ~find_tool_bin(s.compilers[s.i + 1])
    THEN gcc_exit(clean_output_files(s), "NotFound", 1)
    ELSE [s EXCEPT !.pc = "exec"]

\* line 611: the loop goes on while i < compilers.count
AfterExec(i, count) == IF i < count THEN "output" ELSE "glue"

\* lines 641-648: run the compiler; exec_command fails when wait4 fails
gcc_exec(s, exec_ok) ==
    LET t == [s EXCEPT !.execs = Append(@, [cmd |-> "cc", arch |-> s.compilers[s.i + 1],
                                            out |-> CompilerOutput(s, s.i)])]
    IN  IF ~exec_ok THEN gcc_exit(clean_output_files(t), "ExecFailed", 1)
        ELSE [t EXCEPT !.i = s.i + 1, !.pc = AfterExec(s.i + 1, Len(s.compilers))]

\* lines 650-662: with several compilers, glue the temporary outputs
gcc_glue(s, exec_ok) ==
    IF Len(s.compilers) > 1
    THEN LET t == [s EXCEPT !.execs = Append(@, [cmd |-> "glue", arch |-> "",
                                                 out |-> output_file])]
         IN  IF ~exec_ok THEN gcc_exit(clean_output_files(t), "ExecFailed", 1)
             ELSE [t EXCEPT !.pc = "cleanup"]
    ELSE [s EXCEPT !.pc = "cleanup"]

\* lines 664-683: unlink the temporary outputs, release, return 0
gcc_cleanup(s) == gcc_exit(clean_output_files(s), "none", 0)

(***************************************************************************)
(* The parsing of the arguments of fatelf-gcc and fatelf-as                *)
(* (parse_arguments and parse_argument_file of both files).  An argument   *)
(* is the sequence of its parts: <<"@", "f1">> is "@f1", <<"@">> is "@",   *)
(* <<"-Xarch_", "a">> is "-Xarch_a".  The state args holds the tool, the   *)
(* files that can be opened (files: name to arguments), the calls of       *)
(* parse_arguments in progress (stack: the arguments, the loop index i,    *)
(* the depth and the argument that named the file), the arguments handed   *)
(* on (out), the position and the error.                                   *)
(***************************************************************************)
MAX_FILE_DEPTH_GCC == 10
MAX_FILE_DEPTH_AS == 100
MAX_FILE_DEPTH(tool) == IF tool = "gcc" THEN MAX_FILE_DEPTH_GCC ELSE MAX_FILE_DEPTH_AS

ArgX == <<"x">>
ArgO == <<"-o">>
ArgXarch == <<"-Xarch_", "a">>
ArgF1 == <<"@", "f1">>
ArgF2 == <<"@", "f2">>
ArgTokens == {ArgX, ArgO, ArgXarch, ArgF1, ArgF2}

\* the arguments read from a file that cannot be opened
Absent == <<<<"absent">>>>

\* the files f1 and f2: without @FILE, nested, including themselves,
\* including each other, behind -Xarch_ and -o, with "@" and "-Xarch_" alone
ArgFiles ==
    { [f1 |-> <<ArgX>>, f2 |-> <<ArgO, ArgX>>],
      [f1 |-> <<ArgF2, ArgX>>, f2 |-> <<ArgX>>],
      [f1 |-> <<ArgF2, ArgF2>>, f2 |-> Absent],
      [f1 |-> <<ArgX, ArgF1>>, f2 |-> <<>>],
      [f1 |-> <<ArgF2>>, f2 |-> <<ArgX, ArgF1>>],
      [f1 |-> <<ArgXarch, ArgF1>>, f2 |-> <<ArgO, ArgF2>>],
      [f1 |-> <<<<"@">>, <<"-Xarch_">>, ArgO>>, f2 |-> <<ArgF1, ArgXarch>>] }

Frame(argv, depth, arg) == [argv |-> argv, i |-> 0, depth |-> depth, arg |-> arg]

\* main of both tools: parse_arguments(&input_args, ..., 0)
ArgsStart(tool, files, argv) ==
    [tool |-> tool, files |-> files, stack |-> <<Frame(argv, 0, <<>>)>>,
     out |-> <<>>, pc |-> "parse", err |-> "none"]

ArgsIdle == [ArgsStart("gcc", [f1 |-> <<>>, f2 |-> <<>>], <<>>) EXCEPT !.pc = "idle"]

args_xfail(s, kind) == [s EXCEPT !.pc = "failed", !.err = kind]

Top(s) == s.stack[Len(s.stack)]

\* fatelf-gcc.c 350-363: "-Xarch_<arch>" stands before the flag it applies to
IsXarch(s, arg) == s.tool = "gcc" /\ arg[1] = "-Xarch_" /\ Len(arg) > 1

\* arg[0] == '@' && arg[1] != '\0'
IsInclude(arg) == arg[1] = "@" /\ Len(arg) > 1

\* find_flag and accepts_arg: "-o" takes a value in both tools
AcceptsArg(arg) == arg = ArgO

\* the index of the argument the iteration handles: behind "-Xarch_<arch>"
\* the next one, argc when there is none
ArgIndex(s) ==
    LET f == Top(s)
    IN  IF IsXarch(s, f.argv[f.i + 1]) THEN f.i + 1 ELSE f.i

SetI(s, i) == [s EXCEPT !.stack[Len(s.stack)].i = i]

\* a depth check that lets one more file through
parse_argument_file_late(s, arg, j) ==
    LET depth == Top(s).depth + 1
    IN  IF depth > MAX_FILE_DEPTH(s.tool) THEN args_xfail(s, "TooDeep")
        ELSE IF s.files[arg[2]] = Absent THEN args_xfail(s, "IOError")
        ELSE [SetI(s, j + 1) EXCEPT
                !.stack = Append(@, Frame(s.files[arg[2]], depth, arg))]

\* parse_argument_file called with depth + 1: the depth check, the file is
\* opened and read, parse_arguments is entered on its arguments
parse_argument_file(s, arg, j) ==
    LET depth == Top(s).depth + 1
    IN  IF depth >= MAX_FILE_DEPTH(s.tool) THEN args_xfail(s, "TooDeep")
        ELSE IF s.files[arg[2]] = Absent THEN args_xfail(s, "IOError")
        ELSE [SetI(s, j + 1) EXCEPT
                !.stack = Append(@, Frame(s.files[arg[2]], depth, arg))]

\* one iteration of the loop of parse_arguments of fatelf-gcc.c on an
\* argument that names no file
parse_arguments_gcc(s) ==
    LET f == Top(s)
        j == ArgIndex(s)
    IN  IF j = Len(f.argv) THEN SetI(s, j)
        ELSE LET arg == f.argv[j + 1]
             IN  IF ~AcceptsArg(arg) THEN [SetI(s, j + 1) EXCEPT !.out = Append(@, arg)]
                 ELSE IF j + 1 >= Len(f.argv) THEN args_xfail(s, "Usage")
                 ELSE [SetI(s, j + 2) EXCEPT !.out = @ \o <<arg, f.argv[j + 2]>>]

\* one iteration of the loop of parse_arguments of fatelf-as.c on an
\* argument that names no file
parse_arguments_as(s) ==
    LET f == Top(s)
        arg == f.argv[f.i + 1]
    IN  IF ~AcceptsArg(arg) THEN [SetI(s, f.i + 1) EXCEPT !.out = Append(@, arg)]
        ELSE IF f.i + 1 < Len(f.argv)
             THEN [SetI(s, f.i + 2) EXCEPT !.out = @ \o <<arg, f.argv[f.i + 2]>>]
             ELSE [SetI(s, f.i + 2) EXCEPT !.out = Append(@, arg)]

\* the iteration handles an argument that names a file
AtInclude(s) ==
    LET f == Top(s)
        j == ArgIndex(s)
    IN  f.i < Len(f.argv) /\ j < Len(f.argv) /\ IsInclude(f.argv[j + 1])

\* the end of the loop: parse_arguments returns; parse_argument_file closes
\* the file and returns into the iteration that called it, which in
\* fatelf-as.c passes the "@FILE" argument on to as(1)
parse_arguments_return(s) ==
    IF Len(s.stack) = 1 THEN [s EXCEPT !.pc = "done"]
    ELSE [s EXCEPT !.stack = SubSeq(@, 1, Len(@) - 1),
                   !.out = IF s.tool = "as" THEN Append(@, Top(s).arg) ELSE @]

GlueIdle == GlueStart(<<>>, NoFile)

MergeOpen == m.pc = "open" /\ Len(m.files) > 0 /\ m' = merge_open(m) /\ UNCHANGED <<g, r, h, ar, gcc, args>>
MergeRead == m.pc = "read" /\ m' = merge_read(m) /\ UNCHANGED <<g, r, h, ar, gcc, args>>
MergeCleanup == m.pc = "cleanup" /\ m' = merge_cleanup(m) /\ UNCHANGED <<g, r, h, ar, gcc, args>>

InitMerge ==
    /\ args = ArgsIdle
    /\ gcc = GccIdle
    /\ ar = ArIdle
    /\ g = GlueIdle
    /\ r = RecIdle
    /\ h = RsrcIdle
    /\ \E n \in 1..MaxFiles :
         \E files \in [1..n -> SeqsUpTo(Bytes, MaxLen)], old \in BOOLEAN :
            m = MergeStart(files, IF old THEN [exists |-> TRUE, data |-> <<OldByte, OldByte, OldByte>>]
                                         ELSE NoFile)

NextMerge ==
    \/ MergeOpen
    \/ MergeRead
    \/ MergeCleanup

SpecMerge == InitMerge /\ [][NextMerge]_vars

RecMain == r.pc = "main" /\ r.run > 0 /\ r' = rec_main(r) /\ UNCHANGED <<g, m, h, ar, gcc, args>>

RecPrecheck == r.pc = "precheck" /\ r' = rec_precheck(r) /\ UNCHANGED <<g, m, h, ar, gcc, args>>

RecSkipPostorder ==
    /\ r.pc = "walk" /\ CurrentEntry(r).info = "DP"
    /\ r' = rec_next(r)
    /\ UNCHANGED <<g, m, h, ar, gcc, args>>

RecCollect ==
    /\ r.pc = "walk" /\ CurrentEntry(r).info # "DP"
    /\ r' = rec_collect(r)
    /\ UNCHANGED <<g, m, h, ar, gcc, args>>

RecMerge == r.pc = "merge" /\ r' = rec_merge(r) /\ UNCHANGED <<g, m, h, ar, gcc, args>>

\* the tool is run again with the same arguments
RecRunAgain ==
    /\ r.pc = "exited" /\ r.run = 1
    /\ r' = [RecStart(r.roots, r.out) EXCEPT !.run = 2, !.merged = r.merged]
    /\ UNCHANGED <<g, m, h, ar, gcc, args>>

InitRec ==
    /\ args = ArgsIdle
    /\ gcc = GccIdle
    /\ ar = ArIdle
    /\ g = GlueIdle
    /\ m = MergeIdle
    /\ h = RsrcIdle
    /\ \E n \in 0..MaxRoots :
         \E roots \in [1..n -> Trees], out \in OutTrees :
            r = RecStart(roots, out)

NextRec ==
    \/ RecMain
    \/ RecPrecheck
    \/ RecSkipPostorder
    \/ RecCollect
    \/ RecMerge
    \/ RecRunAgain

SpecRec == InitRec /\ [][NextRec]_vars

(***************************************************************************)
(* ar_dostuff called on an archive: one action per step.                   *)
(***************************************************************************)
ArMagic == ar.pc = "magic" /\ ar' = ar_magic(ar) /\ UNCHANGED <<g, m, r, h, gcc, args>>
ArHeader == ar.pc = "header" /\ ar' = ar_header(ar) /\ UNCHANGED <<g, m, r, h, gcc, args>>
ArEntry == ar.pc = "name" /\ ar' = ar_entry(ar) /\ UNCHANGED <<g, m, r, h, gcc, args>>
ArResolve == ar.pc = "resolve" /\ ar' = ar_resolve(ar) /\ UNCHANGED <<g, m, r, h, gcc, args>>
ArDispatch == ar.pc = "dispatch" /\ ar' = ar_dispatch(ar) /\ UNCHANGED <<g, m, r, h, gcc, args>>

InitAr ==
    /\ args = ArgsIdle
    /\ gcc = GccIdle
    /\ g = GlueIdle
    /\ m = MergeIdle
    /\ r = RecIdle
    /\ h = RsrcIdle
    /\ \E file \in ArFiles : ar = ArStart(file)

NextAr ==
    \/ ArMagic
    \/ ArHeader
    \/ ArEntry
    \/ ArResolve
    \/ ArDispatch

SpecAr == InitAr /\ [][NextAr]_vars

(***************************************************************************)
(* The fatelf-gcc driver: one action per step of main.                     *)
(***************************************************************************)
GccBegin == gcc.pc = "start" /\ gcc' = gcc_start(gcc) /\ UNCHANGED <<g, m, r, h, ar, args>>

GccOutput ==
    /\ gcc.pc = "output"
    /\ \E mkstemp_ok \in BOOLEAN : gcc' = gcc_output(gcc, mkstemp_ok)
    /\ UNCHANGED <<g, m, r, h, ar, args>>

GccFind == gcc.pc = "find" /\ gcc' = gcc_find(gcc) /\ UNCHANGED <<g, m, r, h, ar, args>>

GccExec ==
    /\ gcc.pc = "exec"
    /\ \E exec_ok \in BOOLEAN : gcc' = gcc_exec(gcc, exec_ok)
    /\ UNCHANGED <<g, m, r, h, ar, args>>

GccGlue ==
    /\ gcc.pc = "glue"
    /\ \E exec_ok \in BOOLEAN : gcc' = gcc_glue(gcc, exec_ok)
    /\ UNCHANGED <<g, m, r, h, ar, args>>

GccCleanup == gcc.pc = "cleanup" /\ gcc' = gcc_cleanup(gcc) /\ UNCHANGED <<g, m, r, h, ar, args>>

InitGcc ==
    /\ args = ArgsIdle
    /\ g = GlueIdle
    /\ m = MergeIdle
    /\ r = RecIdle
    /\ h = RsrcIdle
    /\ ar = ArIdle
    /\ \E arch_flags \in SeqsUpTo(Archs, MaxArchs), nofat \in BOOLEAN :
         gcc = GccStart(arch_flags, nofat)

NextGcc ==
    \/ GccBegin
    \/ GccOutput
    \/ GccFind
    \/ GccExec
    \/ GccGlue
    \/ GccCleanup

SpecGcc == InitGcc /\ [][NextGcc]_vars

(***************************************************************************)
(* The parsing of the arguments: one action per iteration of the loop of   *)
(* parse_arguments, one per return.                                        *)
(***************************************************************************)
ArgsArg ==
    /\ args.pc = "parse"
    /\ Top(args).i < Len(Top(args).argv)
    /\ ~AtInclude(args)
    /\ args' = IF args.tool = "gcc" THEN parse_arguments_gcc(args)
               ELSE parse_arguments_as(args)
    /\ UNCHANGED <<g, m, r, h, ar, gcc>>

ArgsInclude ==
    /\ args.pc = "parse"
    /\ AtInclude(args)
    /\ args' = parse_argument_file(args, Top(args).argv[ArgIndex(args) + 1], ArgIndex(args))
    /\ UNCHANGED <<g, m, r, h, ar, gcc>>

ArgsReturn ==
    /\ args.pc = "parse"
    /\ Top(args).i >= Len(Top(args).argv)
    /\ args' = parse_arguments_return(args)
    /\ UNCHANGED <<g, m, r, h, ar, gcc>>

InitArgs ==
    /\ g = GlueIdle
    /\ m = MergeIdle
    /\ r = RecIdle
    /\ h = RsrcIdle
    /\ ar = ArIdle
    /\ gcc = GccIdle
    /\ \E tool \in {"gcc", "as"}, files \in ArgFiles, argv \in SeqsUpTo(ArgTokens, MaxArgs) :
         args = ArgsStart(tool, files, argv)

NextArgs ==
    \/ ArgsArg
    \/ ArgsInclude
    \/ ArgsReturn

\* the tool is one sequential process: a step that can be taken is taken
SpecArgs == InitArgs /\ [][NextArgs]_vars /\ WF_vars(NextArgs)

(***************************************************************************)
(* haiku_find_rsrc called on a file: one action per step.                  *)
(***************************************************************************)
RsrcMagic == h.pc = "magic" /\ h.file.name # "" /\ h' = rsrc_magic(h) /\ UNCHANGED <<g, m, r, ar, gcc, args>>
ElfIdent == h.pc = "ident" /\ h' = elf_ident(h) /\ UNCHANGED <<g, m, r, ar, gcc, args>>
ElfEhdr == h.pc = "ehdr" /\ h' = elf_ehdr(h) /\ UNCHANGED <<g, m, r, ar, gcc, args>>
ElfProg == h.pc = "prog" /\ h' = elf_prog(h) /\ UNCHANGED <<g, m, r, ar, gcc, args>>
ElfSect == h.pc = "sect" /\ h' = elf_sect(h) /\ UNCHANGED <<g, m, r, ar, gcc, args>>
ElfAlign == h.pc = "align" /\ h' = elf_align(h) /\ UNCHANGED <<g, m, r, ar, gcc, args>>
RsrcParse == h.pc = "parse" /\ h' = rsrc_parse(h) /\ UNCHANGED <<g, m, r, ar, gcc, args>>

InitRsrc ==
    /\ args = ArgsIdle
    /\ gcc = GccIdle
    /\ ar = ArIdle
    /\ g = GlueIdle
    /\ m = MergeIdle
    /\ r = RecIdle
    /\ \E file \in RsrcFiles : h = RsrcStart(file)

NextRsrc ==
    \/ RsrcMagic
    \/ ElfIdent
    \/ ElfEhdr
    \/ ElfProg
    \/ ElfSect
    \/ ElfAlign
    \/ RsrcParse

SpecRsrc == InitRsrc /\ [][NextRsrc]_vars

(***************************************************************************)
(* The glue tool called on bins: one action per step of fatelf_glue.       *)
(***************************************************************************)
GlueEnter == g.pc = "enter" /\ g' = glue_enter(g) /\ UNCHANGED <<m, r, h, ar, gcc, args>>
GlueReserve == g.pc = "reserve" /\ g' = glue_reserve(g) /\ UNCHANGED <<m, r, h, ar, gcc, args>>
GlueRead == g.pc = "read" /\ g' = glue_read(g) /\ UNCHANGED <<m, r, h, ar, gcc, args>>
GluePad == g.pc = "pad" /\ g' = glue_pad(g) /\ UNCHANGED <<m, r, h, ar, gcc, args>>
GlueCopy == g.pc = "copy" /\ g' = glue_copy(g) /\ UNCHANGED <<m, r, h, ar, gcc, args>>
GlueHeader == g.pc = "header" /\ g' = glue_header(g) /\ UNCHANGED <<m, r, h, ar, gcc, args>>
GlueRsrc == g.pc = "rsrc" /\ g' = glue_rsrc(g) /\ UNCHANGED <<m, r, h, ar, gcc, args>>
GlueClose == g.pc = "close" /\ g' = glue_close(g) /\ UNCHANGED <<m, r, h, ar, gcc, args>>

\* a write, seek or close on the open output fails (xwrite, xlseek, xclose);
\* the first write is behind the check of the count (lines 275-281)
GlueIOError ==
    /\ g.pc \in {"reserve", "pad", "copy", "header", "rsrc", "close"}
    /\ g.pc = "reserve" => Len(g.bins) \in 1..MaxRecords
    /\ g' = xfail(g, "IOError")
    /\ UNCHANGED <<m, r, h, ar, gcc, args>>

\* fatelf_merge_files line 628: after fatelf_glue returned, xcopyfile_attr
\* fails and the caller raises xfail
CallerXfail ==
    /\ g.pc = "done"
    /\ g' = [xfail(g, "IOError") EXCEPT !.pc = "failed_in_caller"]
    /\ UNCHANGED <<m, r, h, ar, gcc, args>>

\* one input more than a FatELF header can count
TooManyBins == [k \in 1..(MaxRecords + 1) |-> Elf("a32", 3, 0, FATELF_32BITS, 52, 4, 64, -1)]

Init ==
    /\ args = ArgsIdle
    /\ gcc = GccIdle
    /\ ar = ArIdle
    /\ \E bins \in SeqsUpTo(InputFiles, MaxBins) \cup {TooManyBins}, old \in BOOLEAN :
        g = GlueStart(bins, IF old THEN [exists |-> TRUE, data |-> <<OldByte>>]
                                   ELSE NoFile)
    /\ m = MergeIdle
    /\ r = RecIdle
    /\ h = RsrcIdle

Next ==
    \/ GlueEnter
    \/ GlueReserve
    \/ GlueRead
    \/ GluePad
    \/ GlueCopy
    \/ GlueHeader
    \/ GlueRsrc
    \/ GlueClose
    \/ GlueIOError
    \/ CallerXfail

Spec == Init /\ [][Next]_vars

(***************************************************************************)
(* Properties of fatelf_glue.                                              *)
(***************************************************************************)
NumBins == Len(g.bins)
Completed == g.pc = "done"

\* C1: in every completed output each record's offset is a multiple of the
\* page size and lies at or behind the on-disk header of n records
C1_OffsetsAligned ==
    Completed =>
        /\ Len(g.diskhdr) = NumBins
        /\ \A k \in 1..NumBins :
            /\ g.diskhdr[k].offset % PageSize = 0
            /\ g.diskhdr[k].offset >= FATELF_DISK_FORMAT_SIZE(NumBins)

C1_Witness ==
    /\ Completed
    /\ NumBins = 2
    /\ g.diskhdr[2].offset > g.diskhdr[1].offset
    /\ FATELF_DISK_FORMAT_SIZE(NumBins) % PageSize # 0

SameTarget(a, b) ==
    /\ a.machine = b.machine /\ a.osabi = b.osabi
    /\ a.osabi_version = b.osabi_version
    /\ a.word_size = b.word_size /\ a.byte_order = b.byte_order

\* C2: no input whose target tuple equals that of an earlier input gets past
\* the duplicate check, so no completed output holds two target-equivalent
\* records; the call then ends with DuplicateTarget, and no padding or
\* payload of that input has been written
C2_NoDuplicateTarget ==
    /\ g.pc \in {"pad", "copy", "header", "rsrc", "close", "done"} =>
        /\ \A k \in 1..Len(g.records) : SameTarget(g.records[k], g.bins[k])
        /\ \A j, k \in 1..Len(g.records) :
              j < k => ~SameTarget(g.bins[j], g.bins[k])
    /\ Completed =>
        /\ Len(g.diskhdr) = NumBins
        /\ \A j, k \in 1..NumBins : j < k => ~SameTarget(g.diskhdr[j], g.diskhdr[k])
    /\ g.err = "DuplicateTarget" =>
        /\ \E j \in 1..g.i : SameTarget(g.bins[j], g.bins[g.i + 1])
        /\ \A e \in 1..Len(g.log) : g.log[e].idx # g.i
        /\ ~g.out.exists

C2_Witness ==
    /\ g.err = "DuplicateTarget"
    /\ g.i = 2
    /\ g.bins[1].id # g.bins[3].id
    /\ SameTarget(g.bins[1], g.bins[3])

\* what haiku_find_rsrc detects in input f on its own
Detected(f) == haiku_find_rsrc(f, 0, 0)
Carriers == { k \in 1..NumBins : Detected(g.bins[k]).ok }
FirstCarrier == CHOOSE k \in Carriers : \A c \in Carriers : k <= c

\* C3: a completed output of inputs of which one carries a resource holds,
\* at the container's resource offset, the bytes [src_offset, src_offset +
\* size) of the lowest-index carrying input, as detected in that input
C3_FirstResourceEmitted ==
    (Completed /\ Carriers # {}) =>
        LET f == g.bins[FirstCarrier]
            d == Detected(f)
            at == haiku_fat_rsrc_offset(g.diskhdr).offset
        IN  /\ Len(g.out.data) = at + d.size
            /\ \A x \in 1..d.size : g.out.data[at + x] = InByte(f.id, d.offset + x - 1)

\* C4: in a completed output the size of record i is the file size of input
\* i less the size of the resource detected in it, and the output holds
\* bytes [0, size) of input i at the record's offset
C4_PayloadPreserved ==
    Completed =>
        \A k \in 1..NumBins :
            LET f == g.bins[k]
                d == Detected(f)
                R == g.diskhdr[k]
            IN  /\ R.size = IF d.ok THEN f.fsize - d.size ELSE f.fsize
                /\ R.offset + R.size <= Len(g.out.data)
                /\ \A x \in 1..R.size : g.out.data[R.offset + x] = InByte(f.id, x - 1)

C4_Witness ==
    /\ Completed
    /\ NumBins = 3
    /\ \E k \in 1..NumBins : Detected(g.bins[k]).ok
    /\ \E k \in 1..NumBins : ~Detected(g.bins[k]).ok

\* C5: a failure of fatelf_glue leaves no output file; a completed call has
\* cleared the unlink target, and a later failure of the invocation leaves
\* the completed output in place
C5_UnlinkOnFailure ==
    /\ g.pc = "failed" => ~g.out.exists /\ g.unlink_on_xfail = "NULL"
    /\ Completed => g.out.exists /\ g.unlink_on_xfail = "NULL"
    /\ g.pc = "failed_in_caller" => g.out.exists /\ Len(g.out.data) > 0

C5_Witness ==
    \/ g.pc = "failed_in_caller"
    \/ g.pc = "failed" /\ g.err = "MalformedELF" /\ g.i = 1

\* the write calls fatelf_glue makes on n inputs, in order
ExpectedKind(k, n) ==
    IF k = 1 THEN "placeholder"
    ELSE IF k <= 2 * n + 1 THEN (IF k % 2 = 0 THEN "pad" ELSE "payload")
    ELSE IF k = 2 * n + 2 THEN "header"
    ELSE "rsrc"

ExpectedIdx(k, n) ==
    IF k = 1 \/ k = 2 * n + 2 THEN -1
    ELSE IF k <= 2 * n + 1 THEN (k - 2) \div 2
    ELSE g.resource.idx

\* C6: the writes to the output are the zero placeholder of the header, the
\* padding and payload of each input in input order, and then the header
\* at offset 0, written when the offset and size of every record are set
C6_WriteOrder ==
    /\ Len(g.log) <= 2 * NumBins + 3
    /\ \A k \in 1..Len(g.log) :
        /\ g.log[k].kind = ExpectedKind(k, NumBins)
        /\ g.log[k].idx = ExpectedIdx(k, NumBins)
        /\ g.log[k].kind = "placeholder" =>
              g.log[k].pos = 0 /\ g.log[k].len = FATELF_DISK_FORMAT_SIZE(NumBins)
        /\ g.log[k].kind = "header" =>
              /\ g.log[k].pos = 0
              /\ Len(g.diskhdr) = NumBins
              /\ \A b \in 1..NumBins :
                    /\ g.diskhdr[b].offset = g.log[2 * b + 1].pos
                    /\ g.diskhdr[b].size = g.log[2 * b + 1].len

C6_Witness ==
    /\ Completed
    /\ NumBins = 3
    /\ Len(g.log) = 2 * NumBins + 3

\* the largest offset + size over the records of the serialized header
MaxEdge ==
    CHOOSE e \in { g.diskhdr[k].offset + g.diskhdr[k].size : k \in 1..Len(g.diskhdr) } :
        \A k \in 1..Len(g.diskhdr) : g.diskhdr[k].offset + g.diskhdr[k].size <= e

RsrcWrites == { k \in 1..Len(g.log) : g.log[k].kind = "rsrc" }

\* C11: the carried resource is written behind the header, starting at the
\* largest offset + size of all records rounded up to 8; a completed output
\* of one input with a resource tail of s bytes holds those s bytes at the
\* end of its record rounded up to 8
C11_ResourceAtAlignedEdge ==
    /\ \A k \in RsrcWrites :
          /\ Len(g.diskhdr) = NumBins
          /\ g.log[k - 1].kind = "header"
          /\ g.log[k].pos = ALIGN(MaxEdge, 8)
          /\ g.log[k].pos >= MaxEdge /\ g.log[k].pos < MaxEdge + 8
    /\ (Completed /\ g.resource.idx >= 0) => RsrcWrites # {}
    /\ (Completed /\ NumBins = 1 /\ Detected(g.bins[1]).ok) =>
          LET f == g.bins[1]
              d == Detected(f)
              at == ALIGN(g.diskhdr[1].offset + g.diskhdr[1].size, 8)
          IN  /\ Len(g.out.data) = at + d.size
              /\ \A x \in 1..d.size : g.out.data[at + x] = InByte(f.id, f.fsize - d.size + x - 1)

C11_Witness ==
    /\ Completed
    /\ NumBins >= 2
    /\ RsrcWrites # {}
    /\ MaxEdge % 8 # 0
    /\ g.diskhdr[g.resource.idx + 1].offset + g.diskhdr[g.resource.idx + 1].size < MaxEdge

\* position x of the output lies in the range of some record
InRecord(x) ==
    \E k \in 1..Len(g.diskhdr) :
        g.diskhdr[k].offset <= x /\ x < g.diskhdr[k].offset + g.diskhdr[k].size

\* C26: in every completed output every byte behind the header and before
\* the end of the last record that lies in no record's range is zero, the
\* bytes between the header and the first record included
C26_GapsAreZero ==
    Completed =>
        \A x \in FATELF_DISK_FORMAT_SIZE(NumBins)..(MaxEdge - 1) :
            ~InRecord(x) => g.out.data[x + 1] = ZeroByte

C26_Witness ==
    /\ Completed
    /\ NumBins = 2
    /\ g.diskhdr[1].offset > FATELF_DISK_FORMAT_SIZE(NumBins)
    /\ g.diskhdr[2].offset > g.diskhdr[1].offset + g.diskhdr[1].size
    /\ RsrcWrites # {}

\* C27: in every completed output the header occupies the bytes before
\* the first record, each record starts at or behind the end of the record
\* before it, the carried resource starts at or behind the end of every
\* record, and every record's range holds the bytes of its input: the
\* header and the resource were written over no payload byte
C27_RegionsDisjoint ==
    Completed =>
        /\ Len(g.diskhdr) = NumBins
        /\ g.diskhdr[1].offset >= FATELF_DISK_FORMAT_SIZE(NumBins)
        /\ \A k \in 1..(NumBins - 1) :
              g.diskhdr[k + 1].offset >= g.diskhdr[k].offset + g.diskhdr[k].size
        /\ \A w \in 1..Len(g.log) :
              /\ g.log[w].kind = "header" =>
                    g.log[w].pos = 0 /\ g.log[w].len = FATELF_DISK_FORMAT_SIZE(NumBins)
              /\ g.log[w].kind = "rsrc" =>
                    \A k \in 1..NumBins :
                        g.log[w].pos >= g.diskhdr[k].offset + g.diskhdr[k].size
        /\ \A x \in 1..FATELF_DISK_FORMAT_SIZE(NumBins) : g.out.data[x] = HdrByte(x - 1)
        /\ \A k \in 1..NumBins :
              \A x \in 1..g.diskhdr[k].size :
                  g.out.data[g.diskhdr[k].offset + x] = InByte(g.bins[k].id, x - 1)

C27_Witness ==
    /\ Completed
    /\ NumBins = 3
    /\ g.resource.idx = 0
    /\ \E w \in RsrcWrites :
          /\ g.log[w].len > 0
          /\ g.log[w].pos > g.diskhdr[3].offset

(***************************************************************************)
(* Properties of haiku_find_rsrc.                                          *)
(***************************************************************************)
\* C12: the end of the ELF data the scan arrives at is the largest of the
\* ends of the two header tables, of the program entries that are not
\* PT_NULL and of the section entries that are neither SHT_NULL nor
\* SHT_NOBITS, for the tables stored at e_phoff and e_shoff
C12_PayloadEnd ==
    (h.pc = "align" /\ h.file.kind = "elf") =>
        h.rsrcOffset = LayoutEnd(h.file.layout, 1)

\* the alignment the rule asks for, from the program entries of the file
RuleAlign(L) == IF L.cls = FATELF_64BITS THEN 8 ELSE Max(32, LayoutAlign(L, 1))

\* C13: the offset returned for an ELF file is the end of its ELF data
\* rounded up to 8 for ELF64 and to the largest p_align of its program
\* entries, at least 32, for ELF32
C13_RsrcOffsetForElf ==
    (h.pc = "parse" /\ h.file.kind = "elf") =>
        LET A == RuleAlign(h.file.layout)
            max_end == LayoutEnd(h.file.layout, 1)
        IN  /\ h.offset >= max_end
            /\ h.offset % A = 0
            /\ h.offset < max_end + A

\* C14: haiku_parse_rsrc_header finds no resource when the file ends at or
\* before offset, finds file size - offset bytes when the word at offset is
\* the magic in either byte order, and finds no resource, without failing,
\* in every other case
C14_ParseRsrcHeader ==
    [][ h.pc = "parse" =>
            LET fsize == Len(h.file.data)
                magic == fsize >= h.offset + 4
                         /\ Field(h.file.data, h.offset, 4) \in {<<0, 16, 79, 68>>, <<68, 79, 16, 0>>}
            IN  /\ h'.pc = "done"
                /\ h'.ret = IF magic THEN 1 ELSE 0
                /\ magic => h'.size = fsize - h.offset ]_vars

(***************************************************************************)
(* Properties of the byte-equality merge.                                  *)
(***************************************************************************)
MergeDone == m.pc = "done"

\* C9: after the merge of regular non-ELF inputs the output is byte for
\* byte the first input, whatever the contents and lengths of the peers
C9_OutputIsFirstInput ==
    MergeDone => m.out.exists /\ m.out.data = m.files[1]

C9_Witness ==
    /\ MergeDone
    /\ Len(m.files) = 3
    /\ Len(m.files[1]) = MaxLen
    /\ Len(m.files[2]) < Len(m.files[1])
    /\ Len(m.files[3]) = Len(m.files[1]) /\ m.files[3] # m.files[1]
    /\ Len(m.warned) = 2

TimesWarned(k) == Cardinality({ w \in 1..Len(m.warned) : m.warned[w] = k })

\* C10: the merge warns exactly once about every input k > 1 whose content
\* is not that of input 1, and never about an input whose content is
C10_WarnsEveryDivergent ==
    MergeDone =>
        \A k \in 1..(Len(m.files) - 1) :
            TimesWarned(k) = IF m.files[k + 1] # m.files[1] THEN 1 ELSE 0

(***************************************************************************)
(* Properties of the recursive merge.                                      *)
(***************************************************************************)
\* C7: a second invocation with the same arguments on the output of the
\* first leaves every path of the output tree with the type, link target
\* and bytes the first invocation left
C7_RecursiveIdempotent ==
    (r.run = 2 /\ r.pc = "exited") => r.out = r.snap

C7_Witness ==
    /\ r.run = 2 /\ r.pc = "exited" /\ r.err = "none"
    /\ Len(r.roots) = 3
    /\ r.out["/a"].type = "reg" /\ Len(r.out["/a"].bytes) > 0
    /\ \E k \in 1..Len(r.merged) : r.merged[k].run = 2 /\ r.merged[k].rel = "/a"

\* a peer of the entry exists in a root iterated before the current one
EarlierPeer ==
    \E j \in 0..(r.ftsidx - 1) : r.roots[j + 1][CurrentEntry(r).rel].type # "none"

\* C8: the entry of root_i is skipped exactly if i > 1, the target exists
\* and a peer from a root before root_i exists; else the merger is invoked
C8_SkipRule ==
    r.pc = "merge" =>
        (r.merge_done <=>
            (r.ftsidx > 0 /\ r.out[CurrentEntry(r).rel].type # "none" /\ EarlierPeer))

\* C15: the tool exits with code 0 only when every operation of the
\* invocation succeeded and with code 1 otherwise: an invocation ended by
\* an error, or one in which a call of fatelf_merge_files returned non-zero
\* (the target of a symbolic link could not be read), does not exit 0
C15_ExitCode ==
    r.pc = "exited" =>
        r.exit = IF r.err = "none" /\ \A k \in 1..Len(r.returned) : r.returned[k] = 0
                 THEN 0 ELSE 1

\* the first input of the file-set the merger is about to be called with
FirstPeer == r.roots[r.files[1] + 1][CurrentEntry(r).rel]

MergerCalled == r.pc = "merge" /\ ~r.merge_done

\* C16: when the first input of the file-set is a regular file classified
\* as an ar archive, fatelf_merge_files ends the invocation with the error
\* Unimplemented instead of returning
C16_ArUnimplemented ==
    [][(MergerCalled /\ FirstPeer.type = "reg" /\ FirstPeer.f.kind = "ar")
         => (r'.pc = "exited" /\ r'.err = "Unimplemented")]_vars

\* C17: when the first input of the file-set is a regular file classified
\* as FatELF, fatelf_merge_files fails with UnsupportedInput and the output
\* tree is left as it was: the target is neither created nor modified
C17_FatInputRefused ==
    [][(MergerCalled /\ FirstPeer.type = "reg" /\ FirstPeer.f.kind = "fat")
         => (r'.pc = "exited" /\ r'.err = "UnsupportedInput" /\ r'.exit = 1
             /\ r'.out = r.out)]_vars

C17_Witness ==
    /\ r.pc = "exited" /\ r.err = "UnsupportedInput" /\ r.run = 1
    /\ Len(r.roots) >= 2
    /\ r.roots[1]["/a"] = FatFile
    /\ r.out["/a"] = OutNode("reg", "", <<OldByte>>)

\* C18: fatelf_glue called with no input or with more than 255 inputs fails
\* with TooManyRecords, has written nothing (no FatELF header), and leaves
\* no file at the output path
BadCount == NumBins = 0 \/ NumBins > MaxRecords

C18_BadCountRefused ==
    (BadCount /\ g.pc \notin {"enter", "reserve"}) =>
        /\ g.pc = "failed" /\ g.err = "TooManyRecords"
        /\ g.log = <<>> /\ g.diskhdr = <<>>
        /\ ~g.out.exists

C18_Witness ==
    /\ NumBins > MaxRecords
    /\ g.pc = "failed" /\ g.err = "TooManyRecords"
    /\ ~g.out.exists

\* the file types of the peers of a relative path that exist
PeerTypes(rel) == { r.roots[j][rel].type : j \in 1..Len(r.roots) } \ {"none"}

\* the roots, counted from 0, that hold the relative path
ExistingPeers(rel) == { j \in 0..(Len(r.roots) - 1) : r.roots[j + 1][rel].type # "none" }

\* C19: when the walk reaches a relative path of which two existing peers
\* differ in file type, the run fails with TypeMismatch and the merger is
\* not called for the path: the output tree and the calls made stay as they
\* were; else the list built holds every existing peer, and every file-set
\* the merger is called with has peers of one file type
C19_PeersOfOneType ==
    [][/\ (r.pc = "walk" /\ CurrentEntry(r).info # "DP") =>
            IF Cardinality(PeerTypes(CurrentEntry(r).rel)) > 1
            THEN /\ r'.pc = "exited" /\ r'.err = "TypeMismatch" /\ r'.exit = 1
                 /\ r'.out = r.out /\ r'.merged = r.merged
            ELSE /\ r'.pc = "merge"
                 /\ { r'.files[k] : k \in 1..Len(r'.files) } = ExistingPeers(CurrentEntry(r).rel)
       /\ r'.merged # r.merged =>
            LET call == r'.merged[Len(r'.merged)]
            IN  /\ call.files # <<>>
                /\ \A k \in 1..Len(call.files) :
                     r.roots[call.files[k] + 1][call.rel].type
                         = r.roots[call.files[1] + 1][call.rel].type
                /\ Cardinality(PeerTypes(call.rel)) = 1]_vars

C19_Witness ==
    /\ r.pc = "exited" /\ r.err = "TypeMismatch" /\ r.run = 1
    /\ Len(r.roots) = 3
    /\ r.roots[1]["/a"].type = "reg" /\ r.roots[2]["/a"].type = "reg"
    /\ r.roots[3]["/a"].type = "lnk"
    /\ r.out["/a"].type = "none"
    /\ \A k \in 1..Len(r.merged) : r.merged[k].rel # "/a"

\* some root of the invocation is not a directory
SomeRootNotDir == \E d \in 1..Len(r.roots) : r.roots[d][""].type # "dir"

\* C20: if a root is not a directory the run fails with NotADirectory
\* before a tree is walked: no entry is visited, the merger is not called
\* and every path of the output tree is as it was before the invocation
C20_RootsAreDirectories ==
    (SomeRootNotDir /\ r.pc \notin {"main", "precheck"}) =>
        /\ r.pc = "exited" /\ r.err = "NotADirectory" /\ r.exit = 1
        /\ r.out = r.snap
        /\ r.ftsidx = 0 /\ r.ent = 1 /\ r.files = <<>>
        /\ \A k \in 1..Len(r.merged) : r.merged[k].run # r.run

C20_Witness ==
    /\ r.pc = "exited" /\ r.err = "NotADirectory" /\ r.run = 1
    /\ Len(r.roots) = 3
    /\ r.roots[1][""].type = "dir" /\ r.roots[1]["/a"].type = "reg"
    /\ r.roots[2][""].type = "dir"
    /\ r.roots[3][""].type = "reg"
    /\ r.out[""].type = "none"

\* the call of the merger made by this step returned 0
MergerSucceeded ==
    /\ MergerCalled
    /\ r'.err = "none"
    /\ Len(r'.returned) = Len(r.returned) + 1
    /\ r'.returned[Len(r'.returned)] = 0

\* C21 as stated: after a successful symlink merge the target is a
\* symbolic link to the link target of the first input, whether or not the
\* target existed before
C21_SymlinkTargetOfFirst ==
    [][(MergerSucceeded /\ FirstPeer.type = "lnk") =>
         r'.out[CurrentEntry(r).rel] = OutNode("lnk", FirstPeer.link, <<>>)]_vars

\* C21: after a successful symlink merge the target is a symbolic link;
\* if it did not exist before it points to the link target of the first
\* input, and if it existed the output tree is left as it was, so merging
\* again changes nothing
C21_SymlinkCreatedOrKept ==
    [][(MergerSucceeded /\ FirstPeer.type = "lnk") =>
         LET rel == CurrentEntry(r).rel
         IN  /\ r'.out[rel].type = "lnk"
             /\ r.out[rel].type = "none" => r'.out[rel] = OutNode("lnk", FirstPeer.link, <<>>)
             /\ r.out[rel].type # "none" => r'.out = r.out]_vars

C21_Witness ==
    /\ r.pc = "exited" /\ r.err = "none" /\ r.run = 1
    /\ Len(r.roots) = 2
    /\ r.roots[1]["/a"] = Lnk("x") /\ r.roots[2]["/a"] = Lnk("y")
    /\ r.out["/a"] = OutNode("lnk", "old", <<>>)
    /\ \E k \in 1..Len(r.merged) : r.merged[k].rel = "/a" /\ r.merged[k].run = 1

\* C22: the merge of a directory file-set creates the target as a
\* directory when it is absent, succeeds and leaves the output tree as it
\* was when the target is a directory, and fails with TypeMismatch, the
\* output tree unchanged, when the target exists and is not a directory
C22_DirectoryMerge ==
    [][(MergerCalled /\ FirstPeer.type = "dir") =>
         LET rel == CurrentEntry(r).rel
         IN  CASE r.out[rel].type = "none" ->
                     /\ MergerSucceeded
                     /\ r'.out = [r.out EXCEPT ![rel] = OutDir]
               [] r.out[rel].type = "dir" ->
                     MergerSucceeded /\ r'.out = r.out
               [] OTHER ->
                     /\ r'.pc = "exited" /\ r'.err = "TypeMismatch" /\ r'.exit = 1
                     /\ r'.out = r.out]_vars

C22_Witness ==
    /\ r.pc = "exited" /\ r.err = "TypeMismatch" /\ r.run = 1
    /\ r.roots[1]["/a"] = Dir
    /\ \A j \in 1..Len(r.roots) : r.roots[j]["/a"].type \in {"none", "dir"}
    /\ r.out[""] = OutDir
    /\ r.out["/a"] = OutNode("reg", "", <<OldByte>>)

(***************************************************************************)
(* Properties of ar_dostuff.                                               *)
(***************************************************************************)
\* the name of the header read last, without padding
HdrName == TrimName(ar_name_of(ar.hdr))
HdrSize == ScanLong(ar_size_of(ar.hdr))

\* the header name is "/" followed by digits only
IsGnuRef(name) ==
    Len(name) >= 2 /\ name[1] = "/" /\ \A k \in 2..Len(name) : isdigit(name[k])

\* the characters of a table from position k (counted from 1) up to the
\* next '/' or the end of the table
RECURSIVE UpToSlash(_, _)
UpToSlash(table, k) ==
    IF k > Len(table) \/ table[k] = "/" THEN <<>>
    ELSE <<table[k]>> \o UpToSlash(table, k + 1)

\* C23: a member whose header name is "/<digits>" and that follows a "//"
\* member gets as its name the characters of the table captured last, from
\* that index up to the next '/' or the end of the table, and is reported
\* under that name; the "//" member becomes the table and is never
\* reported as a member
C23_GnuLongName ==
    [][/\ (ar.pc = "resolve" /\ IsGnuRef(HdrName) /\ ar.has_table
            /\ ScanLong(Tail(HdrName)) < ar.string_table_size) =>
              /\ ar'.pc = "dispatch"
              /\ ar'.name = UpToSlash(ar.string_table, ScanLong(Tail(HdrName)) + 1)
       /\ (ar.pc = "dispatch" /\ HdrName = <<"/", "/">>) =>
              /\ ar'.reported = ar.reported
              /\ ar'.pc # "failed" =>
                    /\ ar'.has_table
                    /\ ar'.string_table = Chars(ar.file, ar.hdr_end, HdrSize)
       /\ (ar.pc = "dispatch" /\ HdrName # <<"/", "/">> /\ IsGnuRef(HdrName)) =>
              /\ Len(ar'.reported) = Len(ar.reported) + 1
              /\ ar'.reported[Len(ar'.reported)].name = ar.name
       /\ \A k \in 1..Len(ar'.reported) : ar'.reported[k].hdr_name # <<"/", "/">>]_vars

C23_Witness ==
    /\ ar.pc = "done"
    /\ \E k \in 1..Len(ar.reported) :
          /\ ar.reported[k].hdr_name = <<"/", "4">>
          /\ ar.reported[k].name = <<"c", "d">>
    /\ \A k \in 1..Len(ar.reported) : ar.reported[k].hdr_name # <<"/", "/">>

\* C24: for a member whose header name is "#1/<N>" the first N characters
\* of the payload are the name, the size is the size of the header less N,
\* the data starts N characters behind the header, and the next header is
\* read at the end of the payload as the header gives it
C24_BsdLongName ==
    [][/\ (ar.pc = "resolve" /\ HasPrefix(HdrName, AR_EFMT1) /\ ar'.pc # "failed") =>
              LET N == ScanLong(SubSeq(HdrName, SAR_EFMT1 + 1, Len(HdrName)))
              IN  /\ ar'.name = Chars(ar.file, ar.hdr_end, N)
                  /\ ar'.fsize = HdrSize - N
                  /\ ar'.epos = ar.hdr_end + N
                  /\ ar'.pc = "dispatch"
       /\ (ar.pc = "dispatch" /\ HasPrefix(HdrName, AR_EFMT1) /\ ar'.pc # "failed") =>
              /\ ar'.pc = "header"
              /\ ar'.pos = ar.epos + ar.fsize
              /\ ar'.pos = ar.hdr_end + HdrSize]_vars

C24_Witness ==
    /\ ar.pc = "done"
    /\ Len(ar.reported) = 3
    /\ ar.reported[2].hdr_name = <<"#", "1", "/", "4">>
    /\ ar.reported[2].name = <<"l", "o", "n", "g">>
    /\ ar.reported[2].size = 2
    /\ ar.reported[2].data_offset = ar.reported[2].hdr_end + 4
    /\ ar.reported[3].hdr_end = ar.reported[2].data_offset + 2 + ArHdrSize

\* C25: a header that does not end in ARFMAG ends the traversal with
\* MalformedAR; no member with such a header is reported
C25_SentinelChecked ==
    /\ \A k \in 1..Len(ar.reported) : ar.reported[k].fmag = ARFMAG
    /\ (ar.hdr # <<>> /\ ar_fmag_of(ar.hdr) # ARFMAG /\ ar.pc # "name") =>
          ar.pc = "failed" /\ ar.err = "MalformedAR"

\* C28: the lookup of a GNU "/<index>" name reads the string table below
\* its size only, and an index at or behind the size is rejected
C28_TableReadsInBounds ==
    /\ ar.maxread < ar.string_table_size
    /\ (ar.pc = "dispatch" /\ IsGnuRef(HdrName) /\ ar.has_table) =>
          ScanLong(Tail(HdrName)) < ar.string_table_size

(***************************************************************************)
(* Properties of the fatelf-gcc driver.                                    *)
(***************************************************************************)
Registered == { gcc.temp_output_args[k] : k \in 1..Len(gcc.temp_output_args) }
CompilerRuns == { k \in 1..Len(gcc.execs) : gcc.execs[k].cmd = "cc" }
GlueRuns == { k \in 1..Len(gcc.execs) : gcc.execs[k].cmd = "glue" }

\* C29: with more than one architecture the compilers are run in the order
\* of the compiler set, each on a temporary output of its own, and glue is
\* run only behind the runs of all of them; when the driver has exited
\* after a temporary output was registered, no registered temporary output
\* exists; with one architecture no temporary output is made and glue is
\* not run
C29_DriverOrderAndCleanup ==
    /\ \A k \in CompilerRuns :
          /\ k <= Len(gcc.compilers)
          /\ gcc.execs[k].arch = gcc.compilers[k]
          /\ Len(gcc.compilers) > 1 =>
                /\ gcc.execs[k].out = gcc.temp_output_args[k]
                /\ \A j \in CompilerRuns : j # k => gcc.execs[j].out # gcc.execs[k].out
    /\ \A k \in GlueRuns :
          /\ Len(gcc.compilers) > 1
          /\ k = Len(gcc.compilers) + 1
          /\ CompilerRuns = 1..Len(gcc.compilers)
    /\ gcc.pc = "exited" => gcc.fs \cap Registered = {}
    /\ (gcc.pc \notin {"idle", "start"} /\ Len(gcc.compilers) = 1) =>
          gcc.temp_output_args = <<>> /\ gcc.fs = {} /\ GlueRuns = {}
          /\ \A k \in CompilerRuns : gcc.execs[k].out = output_file
    /\ (gcc.pc = "exited" /\ gcc.exit = 0) =>
          /\ CompilerRuns = 1..Len(gcc.compilers)
          /\ Len(gcc.compilers) > 1 => GlueRuns # {}

C29_Witness ==
    /\ gcc.pc = "exited" /\ gcc.err = "NotFound"
    /\ Len(gcc.compilers) = 3
    /\ Len(gcc.temp_output_args) = 3
    /\ Len(gcc.execs) = 2
    /\ gcc.fs = {}

(***************************************************************************)
(* Properties of the parsing of the arguments.                             *)
(***************************************************************************)
\* C30: the parsing of the arguments of fatelf-gcc and fatelf-as ends for
\* every set of @FILE files, files that include themselves or each other
\* among them: no call of parse_arguments is ever entered at a depth of
\* MAX_FILE_DEPTH (10 for fatelf-gcc, 100 for fatelf-as) or more, and the
\* parsing always comes to its end or to an error
C30_ParsingTerminates ==
    /\ [](\A k \in 1..Len(args.stack) :
            /\ args.stack[k].depth = k - 1
            /\ args.stack[k].depth < MAX_FILE_DEPTH(args.tool))
    /\ <>(args.pc \in {"idle", "done", "failed"})

C30_Witness ==
    /\ args.pc = "failed" /\ args.err = "TooDeep"
    /\ args.tool = "as"
    /\ Len(args.stack) = MAX_FILE_DEPTH_AS
    /\ \E k \in 1..Len(args.stack) : \E j \in 1..Len(args.stack) :
          k < j /\ args.stack[j].arg = ArgF1 /\ args.stack[k].arg = ArgF2

====
